---------------------------- MODULE Spec2Model ----------------------------
(***************************************************************************)
(* SANo emulator: the bus fabric, the two mailboxes, the CPLD boot-copy    *)
(* handlers, the cartridge and the Emulator wiring, as state machines.     *)
(*                                                                         *)
(* Memories are kept sparse: a byte array is a function from the offsets   *)
(* that hold a value different from the array's fill byte to that value,   *)
(* so the arrays keep their real sizes and addresses keep their width.     *)
(***************************************************************************)
EXTENDS Integers, Sequences, FiniteSets, TLC

(***************************************************************************)
(* Bounds of the model                                                     *)
(***************************************************************************)
\* general bus accesses in one behaviour of Spec
MaxOps == 2
\* payload length of the boot messages delivered byte by byte
MaxLen == 2
\* Cartridge objects created in one behaviour
MaxLoads == 2
\* device registrations in one behaviour of SpecBus
MaxMaps == 3
\* frames run after one clock reset
MaxFrames == 2
\* ticks counted past the end of the first video frame
MaxExtraTicks == 3
\* samples the producer keeps in the FIFO of channel 7
MaxShortLevel == 1
\* stores to the CPLD3 TABLE_DATA register after one reset
MaxTableWrites == 6
\* onHSync calls counted past the first pass over the scanline table
MaxExtraHSyncs == 2
\* add*Cycles calls made on the MasterClock on its own
MaxClockCalls == 4


(***************************************************************************)
(* Widths                                                                  *)
(***************************************************************************)
\* 24-bit flat address space: & 0xFFFFFF
AddrSpace == 16777216
\* uint16_t offsets of Address
OffsetSpace == 65536

Flat(bank, offset) == bank * OffsetSpace + offset

(***************************************************************************)
(* Sparse byte arrays                                                      *)
(***************************************************************************)
Empty == [x \in {} |-> 0]

Get(m, a, fill) == IF a \in DOMAIN m THEN m[a] ELSE fill

Put(m, a, v, fill) ==
    IF v = fill
    THEN [x \in (DOMAIN m) \ {a} |-> m[x]]
    ELSE [x \in (DOMAIN m) \cup {a} |-> IF x = a THEN v ELSE m[x]]

(***************************************************************************)
(* RAM (memory/ram.cpp)                                                    *)
(***************************************************************************)
NewRAM(baseAddress, size) == [baseAddress |-> baseAddress, size |-> size, data |-> Empty]

NullRAM == NewRAM(0, 0)

\* uint32_t offset = flatAddr - baseAddress; if (offset < size): below the base
\* the unsigned difference wraps to at least 2^32 - 2^24, which no size reaches
RamInRange(ram, flatAddr) ==
    flatAddr >= ram.baseAddress /\ flatAddr - ram.baseAddress < ram.size

RAM_readByte(ram, flatAddr) ==
    IF RamInRange(ram, flatAddr)
    THEN Get(ram.data, flatAddr - ram.baseAddress, 0)
    ELSE 255

RAM_storeByte(ram, flatAddr, value) ==
    IF RamInRange(ram, flatAddr)
    THEN [ram EXCEPT !.data = Put(@, flatAddr - ram.baseAddress, value, 0)]
    ELSE ram

RAM_decodeAddress(ram, flatAddr) ==
    flatAddr >= ram.baseAddress /\ flatAddr < ram.baseAddress + ram.size

(***************************************************************************)
(* Mailbox (memory/mailbox.cpp)                                            *)
(***************************************************************************)
NewMailbox(baseAddress, size) ==
    [baseAddress |-> baseAddress, size |-> size, data |-> Empty,
     newDataFlag |-> FALSE, busyFlag |-> FALSE]

NullMailbox == NewMailbox(0, 0)

\* uint32_t offset = (flatAddr - baseAddress) & 0xFFFFFF
MbOffset(mb, flatAddr) == (flatAddr + AddrSpace - mb.baseAddress) % AddrSpace

\* the value Mailbox::readByte returns
Mailbox_readValue(mb, flatAddr) ==
    IF MbOffset(mb, flatAddr) < mb.size
    THEN Get(mb.data, MbOffset(mb, flatAddr), 0)
    ELSE 255

\* mutant of Mailbox_readByte: only a read of a written offset clears the flag
Mailbox_readByte_Written(mb, flatAddr) ==
    IF MbOffset(mb, flatAddr) \in DOMAIN mb.data
    THEN [mb EXCEPT !.newDataFlag = FALSE]
    ELSE mb

\* the mailbox Mailbox::readByte leaves behind
Mailbox_readByte(mb, flatAddr) ==
    IF MbOffset(mb, flatAddr) < mb.size
    THEN [mb EXCEPT !.newDataFlag = FALSE]
    ELSE mb

\* Mailbox::storeByte up to, and not including, the call of writeCallback
Mailbox_storeData(mb, flatAddr, value) ==
    IF MbOffset(mb, flatAddr) < mb.size
    THEN [mb EXCEPT !.data = Put(@, MbOffset(mb, flatAddr), value, 0),
                    !.newDataFlag = TRUE]
    ELSE mb

\* mutant of Mailbox_storeNotifies: the callback is reached whatever the offset
Mailbox_storeNotifies_Always(mb, flatAddr) == MbOffset(mb, flatAddr) >= 0

\* whether Mailbox::storeByte reaches the call of writeCallback
Mailbox_storeNotifies(mb, flatAddr) == MbOffset(mb, flatAddr) < mb.size

Mailbox_decodeAddress(mb, flatAddr) ==
    flatAddr >= mb.baseAddress /\ flatAddr < mb.baseAddress + mb.size

Mailbox_clear(mb) == [mb EXCEPT !.data = Empty, !.newDataFlag = FALSE, !.busyFlag = FALSE]

(***************************************************************************)
(* Cpu65816: the pins and the program address the Emulator drives.  The    *)
(* core itself is an external collaborator; a pin holds what was last set, *)
(* and a CPU is constructed held in reset.                                 *)
(***************************************************************************)
NewCpu == [RES |-> TRUE, RDY |-> FALSE, IRQ |-> FALSE, PC |-> <<0, 0>>]

setRESPin(c, value) == [c EXCEPT !.RES = value]

setRDYPin(c, value) == [c EXCEPT !.RDY = value]

setIRQPin(c, value) == [c EXCEPT !.IRQ = value]

setProgramAddress(c, bank, offset) == [c EXCEPT !.PC = <<bank, offset>>]

(***************************************************************************)
(* Callbacks bound by Emulator::setupCallbacks.  A trace entry is          *)
(* <<kind, address, value>>.                                               *)
(***************************************************************************)
\* cpld2->setGraphicsCPUReset([this](bool state) {...})
GraphicsCPUReset(c, state) ==
    IF ~state
    THEN setProgramAddress(setRESPin(c, FALSE), 0, 0)
    ELSE setRESPin(c, TRUE)

\* cpld1->setSoundCPUReset([this](bool state) {...})
SoundCPUReset(c, state) ==
    IF ~state
    THEN setProgramAddress(setRESPin(c, FALSE), 0, 0)
    ELSE setRESPin(c, TRUE)

\* cpld2->setMailboxACallback([this]() { graphicsCPU->setIRQPin(true); })
MailboxACallback(c) == setIRQPin(c, TRUE)

\* cpld1->setMailboxBCallback([this]() { soundCPU->setIRQPin(true); })
MailboxBCallback(c) == setIRQPin(c, TRUE)

(***************************************************************************)
(* CPLD2_Video::onMailboxAWrite (cpld/cpld2_video.cpp)                     *)
(***************************************************************************)
\* Address(0x40, offset): the offset is a uint16_t
MailboxAAddr(offset) == Flat(64, offset % OffsetSpace)

\* mutant of CopyToVRAM: the payload is taken from mailbox offset 4 on
RECURSIVE CopyToVRAM_From4(_, _, _, _)
CopyToVRAM_From4(i, length, destAddr, st) ==
    IF i >= length THEN st
    ELSE LET addr == MailboxAAddr(4 + i)
             data == Mailbox_readValue(st.mb, addr)
             vramAddr == Flat(0, (destAddr + i) % OffsetSpace)
         IN CopyToVRAM_From4(i + 1, length, destAddr,
                [st EXCEPT !.mb = Mailbox_readByte(@, addr),
                           !.ram = RAM_storeByte(@, vramAddr, data),
                           !.trace = Append(@, <<"ramw", vramAddr, data>>)])

\* for (uint16_t i = 0; i < length; i++) { read mailbox 5 + i; store VRAM destAddr + i }
RECURSIVE CopyToVRAM(_, _, _, _)
CopyToVRAM(i, length, destAddr, st) ==
    IF i >= length THEN st
    ELSE LET addr == MailboxAAddr(5 + i)
             data == Mailbox_readValue(st.mb, addr)
             vramAddr == Flat(0, (destAddr + i) % OffsetSpace)
         IN CopyToVRAM(i + 1, length, destAddr,
                [st EXCEPT !.mb = Mailbox_readByte(@, addr),
                           !.ram = RAM_storeByte(@, vramAddr, data),
                           !.trace = Append(@, <<"ramw", vramAddr, data>>)])

\* the branch if (cmd == 0x01) of onMailboxAWrite, after the read of cmd
BootCopyA(mb0, ram, c) ==
    LET destLo == Mailbox_readValue(mb0, MailboxAAddr(1))
        mb1 == Mailbox_readByte(mb0, MailboxAAddr(1))
        destHi == Mailbox_readValue(mb1, MailboxAAddr(2))
        mb2 == Mailbox_readByte(mb1, MailboxAAddr(2))
        destAddr == destLo + destHi * 256
        lenLo == Mailbox_readValue(mb2, MailboxAAddr(3))
        mb3 == Mailbox_readByte(mb2, MailboxAAddr(3))
        lenHi == Mailbox_readValue(mb3, MailboxAAddr(4))
        mb4 == Mailbox_readByte(mb3, MailboxAAddr(4))
        length == lenLo + lenHi * 256
        st == CopyToVRAM(0, length, destAddr, [mb |-> mb4, ram |-> ram, trace |-> <<>>])
    IN [mb |-> st.mb, ram |-> st.ram, cpu |-> GraphicsCPUReset(c, FALSE),
        trace |-> Append(st.trace, <<"reset", 0, 0>>)]

\* mutant of OnMailboxAWrite: every non-zero command byte is taken for boot-copy
OnMailboxAWrite_AnyCmd(mb, ram, c) ==
    LET cmd == Mailbox_readValue(mb, MailboxAAddr(0))
        mb0 == Mailbox_readByte(mb, MailboxAAddr(0))
    IN IF cmd # 0
       THEN BootCopyA(mb0, ram, c)
       ELSE [mb |-> mb0, ram |-> ram, cpu |-> MailboxACallback(c),
             trace |-> << <<"irq", 0, 0>> >>]

\* mb: mailbox A, ram: Graphics RAM, c: the Graphics CPU; both pointers of the
\* guard (mailboxA && graphicsRAM) are set by setupCallbacks before the handler is bound
OnMailboxAWrite(mb, ram, c) ==
    LET cmd == Mailbox_readValue(mb, MailboxAAddr(0))
        mb0 == Mailbox_readByte(mb, MailboxAAddr(0))
    IN IF cmd = 1
       THEN BootCopyA(mb0, ram, c)
       ELSE [mb |-> mb0, ram |-> ram, cpu |-> MailboxACallback(c),
             trace |-> << <<"irq", 0, 0>> >>]

\* CPLD2_Video register file (cpld2_video.h: Register Map $400200-$40021F)
CPLD2_BASE == 4194816
CPLD2_SIZE == 32

NullCPLD2 == [videoMode |-> "none", rasterLine |-> 0, rasterX |-> 0, inVBlank |-> FALSE,
              inHBlank |-> FALSE, vblankIRQPending |-> FALSE, hblankIRQPending |-> FALSE]

\* CPLD2_Video::CPLD2_Video, which ends in reset()
NewCPLD2 == [videoMode |-> "MODE_240P", rasterLine |-> 0, rasterX |-> 0, inVBlank |-> TRUE,
             inHBlank |-> TRUE, vblankIRQPending |-> FALSE, hblankIRQPending |-> FALSE]

\* CPLD2_Video::storeByte
CPLD2_storeByte(regs, flatAddr, value) ==
    LET offset == flatAddr - CPLD2_BASE
    IN CASE offset = 0 ->
              [regs EXCEPT !.videoMode = IF value % 2 = 1 THEN "MODE_480I" ELSE "MODE_240P"]
         [] offset = 10 /\ value # 0 -> [regs EXCEPT !.vblankIRQPending = FALSE]
         [] OTHER -> regs

(***************************************************************************)
(* CPLD1_Audio::onMailboxBWrite (cpld/cpld1_audio.cpp)                     *)
(***************************************************************************)
\* mutant of MailboxBAddr: mailbox B read through mailbox A's bank
MailboxBAddr_Bank40(offset) == Flat(64, offset % OffsetSpace)

\* Address(0x41, offset)
MailboxBAddr(offset) == Flat(65, offset % OffsetSpace)

RECURSIVE CopyToSoundRAM(_, _, _, _)
CopyToSoundRAM(i, length, destAddr, st) ==
    IF i >= length THEN st
    ELSE LET addr == MailboxBAddr(5 + i)
             data == Mailbox_readValue(st.mb, addr)
             ramAddr == Flat(0, (destAddr + i) % OffsetSpace)
         IN CopyToSoundRAM(i + 1, length, destAddr,
                [st EXCEPT !.mb = Mailbox_readByte(@, addr),
                           !.ram = RAM_storeByte(@, ramAddr, data),
                           !.trace = Append(@, <<"ramw", ramAddr, data>>)])

\* the branch if (cmd == 0x01) of onMailboxBWrite, after the read of cmd
BootCopyB(mb0, ram, c) ==
    LET destLo == Mailbox_readValue(mb0, MailboxBAddr(1))
        mb1 == Mailbox_readByte(mb0, MailboxBAddr(1))
        destHi == Mailbox_readValue(mb1, MailboxBAddr(2))
        mb2 == Mailbox_readByte(mb1, MailboxBAddr(2))
        destAddr == destLo + destHi * 256
        lenLo == Mailbox_readValue(mb2, MailboxBAddr(3))
        mb3 == Mailbox_readByte(mb2, MailboxBAddr(3))
        lenHi == Mailbox_readValue(mb3, MailboxBAddr(4))
        mb4 == Mailbox_readByte(mb3, MailboxBAddr(4))
        length == lenLo + lenHi * 256
        st == CopyToSoundRAM(0, length, destAddr, [mb |-> mb4, ram |-> ram, trace |-> <<>>])
    IN [mb |-> st.mb, ram |-> st.ram, cpu |-> SoundCPUReset(c, FALSE),
        trace |-> Append(st.trace, <<"reset", 0, 0>>)]

\* mb: mailbox B, ram: Sound RAM, c: the Sound CPU
OnMailboxBWrite(mb, ram, c) ==
    LET cmd == Mailbox_readValue(mb, MailboxBAddr(0))
        mb0 == Mailbox_readByte(mb, MailboxBAddr(0))
    IN IF cmd = 1
       THEN BootCopyB(mb0, ram, c)
       ELSE [mb |-> mb0, ram |-> ram, cpu |-> MailboxBCallback(c),
             trace |-> << <<"irq", 0, 0>> >>]

(***************************************************************************)
(* Cartridge (cartridge/cartridge.cpp, cartridge.h)                        *)
(***************************************************************************)
ROM_WINDOW_START == 12582912
ROM_WINDOW_END == 16777215
BANK_REGISTER == 4325376
SAVE_RAM_START == 7340032
SAVE_RAM_END == 7405567
SAVE_RAM_SIZE == 65536
MAX_BANKS == 16
BANK_SIZE == 4194304

TITLE_SIZE == 32

\* title: the 32 chars of ROMHeader::title, title[k] of the code at index k + 1
ZeroHeader == [mainCPU_entryPoint |-> 0, graphicsCPU_entryPoint |-> 0,
               soundCPU_entryPoint |-> 0, paletteData |-> 0, tileData |-> 0,
               audioData |-> 0, title |-> [k \in 1..TITLE_SIZE |-> 0], version |-> 0]

\* Cartridge::Cartridge(): no ROM, no save RAM, bank 0, header zeroed
NewCartridge ==
    [rom |-> [size |-> 0, bytes |-> Empty],
     saveRAM |-> [size |-> 0, data |-> Empty],
     currentBank |-> 0, header |-> ZeroHeader]

RomAt(rom, off) == Get(rom.bytes, off, 0)

Entry24(rom, k) == RomAt(rom, k) + RomAt(rom, k + 1) * 256 + RomAt(rom, k + 2) * 65536

parseHeader(cart) ==
    IF cart.rom.size < 256 THEN cart
    ELSE [cart EXCEPT !.header =
            [mainCPU_entryPoint |-> Entry24(cart.rom, 0),
             graphicsCPU_entryPoint |-> Entry24(cart.rom, 3),
             soundCPU_entryPoint |-> Entry24(cart.rom, 6),
             paletteData |-> Entry24(cart.rom, 9),
             tileData |-> Entry24(cart.rom, 12),
             audioData |-> Entry24(cart.rom, 15),
             title |-> [k \in 1..TITLE_SIZE |->
                          IF k = TITLE_SIZE THEN 0 ELSE RomAt(cart.rom, 12 + (k - 1))],
             version |-> RomAt(cart.rom, 50)]]

\* mutant of Cartridge_loadROM: the selected bank survives a load
Cartridge_loadROM_KeepBank(cart, file) ==
    IF ~file.open \/ file.size = 0 \/ file.size > BANK_SIZE * MAX_BANKS
    THEN [ok |-> FALSE, cart |-> cart]
    ELSE IF ~file.readOk
         THEN [ok |-> FALSE, cart |-> [cart EXCEPT !.rom = [size |-> 0, bytes |-> Empty]]]
    ELSE [ok |-> TRUE,
          cart |-> parseHeader([cart EXCEPT !.rom = [size |-> file.size, bytes |-> file.bytes]])]

\* Cartridge::loadROM(filename); file: [open, readOk, size, bytes]
Cartridge_loadROM(cart, file) ==
    IF ~file.open THEN [ok |-> FALSE, cart |-> cart]
    ELSE IF file.size = 0 THEN [ok |-> FALSE, cart |-> cart]
    ELSE IF file.size > BANK_SIZE * MAX_BANKS THEN [ok |-> FALSE, cart |-> cart]
    ELSE IF ~file.readOk
         THEN [ok |-> FALSE, cart |-> [cart EXCEPT !.rom = [size |-> 0, bytes |-> Empty]]]
    ELSE [ok |-> TRUE,
          cart |-> [parseHeader([cart EXCEPT !.rom = [size |-> file.size, bytes |-> file.bytes]])
                        EXCEPT !.currentBank = 0]]

Cartridge_isLoaded(cart) == cart.rom.size > 0

addressInROMWindow(address) == address >= ROM_WINDOW_START /\ address <= ROM_WINDOW_END

addressInSaveRAM(address) == address >= SAVE_RAM_START /\ address <= SAVE_RAM_END

\* mutant of mapAddress: the bank register is ignored
mapAddress_Bank0(cart, address) == address - ROM_WINDOW_START

mapAddress(cart, address) == cart.currentBank * BANK_SIZE + (address - ROM_WINDOW_START)

setBank(cart, bank) == [cart EXCEPT !.currentBank = IF bank >= MAX_BANKS THEN 0 ELSE bank]

Cartridge_readByte(cart, flatAddr) ==
    IF flatAddr >= 65532 /\ flatAddr <= 65535
    THEN (IF flatAddr < cart.rom.size THEN RomAt(cart.rom, flatAddr) ELSE 255)
    ELSE IF flatAddr >= 32768 /\ flatAddr <= 65535
    THEN (IF flatAddr < cart.rom.size THEN RomAt(cart.rom, flatAddr) ELSE 255)
    ELSE IF addressInROMWindow(flatAddr)
    THEN (IF mapAddress(cart, flatAddr) < cart.rom.size
          THEN RomAt(cart.rom, mapAddress(cart, flatAddr)) ELSE 255)
    ELSE IF addressInSaveRAM(flatAddr)
    THEN (IF flatAddr - SAVE_RAM_START < cart.saveRAM.size
          THEN Get(cart.saveRAM.data, flatAddr - SAVE_RAM_START, 255) ELSE 255)
    ELSE 255

\* mutant of Cartridge_storeByte: save RAM is treated as read-only
Cartridge_storeByte_NoSaveRAM(cart, flatAddr, value) ==
    IF flatAddr = BANK_REGISTER THEN setBank(cart, value % 16) ELSE cart

Cartridge_storeByte(cart, flatAddr, value) ==
    IF flatAddr = BANK_REGISTER THEN setBank(cart, value % 16)
    ELSE IF addressInSaveRAM(flatAddr)
    THEN (IF flatAddr - SAVE_RAM_START < cart.saveRAM.size
          THEN [cart EXCEPT !.saveRAM.data = Put(@, flatAddr - SAVE_RAM_START, value, 255)]
          ELSE cart)
    ELSE cart

Cartridge_decodeAddress(flatAddr) ==
    \/ flatAddr >= 65532 /\ flatAddr <= 65535
    \/ flatAddr >= 32768 /\ flatAddr <= 65535
    \/ addressInROMWindow(flatAddr)
    \/ flatAddr = BANK_REGISTER
    \/ addressInSaveRAM(flatAddr)

(***************************************************************************)
(* ROM files offered to load_rom                                           *)
(***************************************************************************)
Put24(m, k, val) ==
    Put(Put(Put(m, k, val % 256, 0), k + 1, (val \div 256) % 256, 0),
        k + 2, (val \div 65536) % 256, 0)

\* an 8 MB image: header entry points, and 0xBB as the first byte of bank 1
RomFile(main, gfx, snd) ==
    [open |-> TRUE, readOk |-> TRUE, size |-> 2 * BANK_SIZE,
     bytes |-> Put(Put24(Put24(Put24(Empty, 0, main), 3, gfx), 6, snd), BANK_SIZE, 187, 0)]

\* main entry $C000AA; the coprocessors boot through their mailboxes
RomBoot == RomFile(12583082, 0, 0)

\* main entry $C000AA; graphics entry $C00100, sound entry $C00200
RomDirect == RomFile(12583082, 12583168, 12583424)

MissingFile == [open |-> FALSE, readOk |-> FALSE, size |-> 0, bytes |-> Empty]

RomFiles == {RomBoot, RomDirect, MissingFile}

\* the files loaded where the header's entry points play no part
BusRomFiles == {RomBoot, MissingFile}

(***************************************************************************)
(* The machine's objects as one value M, so that a bus access is an        *)
(* operator from M to M.  M.carts[g] is the g-th Cartridge object created; *)
(* M.cartridge is the live one (0: none).  A destroyed object keeps the    *)
(* contents it had (the stale memory a dangling pointer refers to).        *)
(***************************************************************************)
CpuNames == {"main", "graphics", "sound"}

Dev(name) == [dev |-> name, gen |-> 0]

CartDev(g) == [dev |-> "cartridge", gen |-> g]

IsDangling(M, d) == d.dev = "cartridge" /\ d.gen # M.cartridge

DeviceDecode(M, d, a) ==
    CASE d.dev = "mainRAM" -> RAM_decodeAddress(M.mainRAM, a)
      [] d.dev = "graphicsRAM" -> RAM_decodeAddress(M.graphicsRAM, a)
      [] d.dev = "soundRAM" -> RAM_decodeAddress(M.soundRAM, a)
      [] d.dev = "mailboxA" -> Mailbox_decodeAddress(M.mailboxA, a)
      [] d.dev = "mailboxB" -> Mailbox_decodeAddress(M.mailboxB, a)
      [] d.dev = "cartridge" -> Cartridge_decodeAddress(a)

DeviceReadValue(M, d, a) ==
    CASE d.dev = "mainRAM" -> RAM_readByte(M.mainRAM, a)
      [] d.dev = "graphicsRAM" -> RAM_readByte(M.graphicsRAM, a)
      [] d.dev = "soundRAM" -> RAM_readByte(M.soundRAM, a)
      [] d.dev = "mailboxA" -> Mailbox_readValue(M.mailboxA, a)
      [] d.dev = "mailboxB" -> Mailbox_readValue(M.mailboxB, a)
      [] d.dev = "cartridge" -> Cartridge_readByte(M.carts[d.gen], a)

DeviceRead(M, d, a) ==
    CASE d.dev = "mailboxA" -> [M EXCEPT !.mailboxA = Mailbox_readByte(@, a)]
      [] d.dev = "mailboxB" -> [M EXCEPT !.mailboxB = Mailbox_readByte(@, a)]
      [] OTHER -> M

\* mailboxA->setWriteCallback([this]() { cpld2->onMailboxAWrite(); })
MailboxA_storeByte(M, a, value) ==
    LET stored == Mailbox_storeData(M.mailboxA, a, value)
    IN IF Mailbox_storeNotifies(M.mailboxA, a)
       THEN LET r == OnMailboxAWrite(stored, M.graphicsRAM, M.cpu["graphics"])
            IN [M EXCEPT !.mailboxA = r.mb, !.graphicsRAM = r.ram,
                         !.cpu["graphics"] = r.cpu,
                         !.trace = @ \o << <<"cbA", a, value>> >> \o r.trace]
       ELSE [M EXCEPT !.mailboxA = stored]

\* mailboxB->setWriteCallback([this]() { cpld1->onMailboxBWrite(); })
MailboxB_storeByte(M, a, value) ==
    LET stored == Mailbox_storeData(M.mailboxB, a, value)
    IN IF Mailbox_storeNotifies(M.mailboxB, a)
       THEN LET r == OnMailboxBWrite(stored, M.soundRAM, M.cpu["sound"])
            IN [M EXCEPT !.mailboxB = r.mb, !.soundRAM = r.ram,
                         !.cpu["sound"] = r.cpu,
                         !.trace = @ \o << <<"cbB", a, value>> >> \o r.trace]
       ELSE [M EXCEPT !.mailboxB = stored]

DeviceStore(M, d, a, value) ==
    CASE d.dev = "mainRAM" -> [M EXCEPT !.mainRAM = RAM_storeByte(@, a, value)]
      [] d.dev = "graphicsRAM" -> [M EXCEPT !.graphicsRAM = RAM_storeByte(@, a, value)]
      [] d.dev = "soundRAM" -> [M EXCEPT !.soundRAM = RAM_storeByte(@, a, value)]
      [] d.dev = "mailboxA" -> MailboxA_storeByte(M, a, value)
      [] d.dev = "mailboxB" -> MailboxB_storeByte(M, a, value)
      [] d.dev = "cartridge" -> [M EXCEPT !.carts[d.gen] = Cartridge_storeByte(@, a, value)]

(***************************************************************************)
(* SystemBus: the registered devices in registration order; the first      *)
(* device that decodes the address serves the access, an unclaimed read    *)
(* gives 0xFF and an unclaimed write is dropped.                           *)
(***************************************************************************)
\* the index of the device that serves address a, 0 when none decodes it
SystemBus_find(M, devices, a) ==
    LET hits == {i \in 1..Len(devices) : DeviceDecode(M, devices[i], a)}
    IN IF hits = {} THEN 0 ELSE CHOOSE i \in hits : \A j \in hits : i <= j

\* the devices whose decodeAddress the walk calls for address a
SystemBus_probed(M, devices, a) ==
    LET i == SystemBus_find(M, devices, a)
    IN IF i = 0 THEN 1..Len(devices) ELSE 1..i

\* the walk calls into a destroyed Cartridge: undefined behaviour
SystemBus_dangling(M, devices, a) ==
    \E i \in SystemBus_probed(M, devices, a) : IsDangling(M, devices[i])

SystemBus_readValue(M, devices, a) ==
    LET i == SystemBus_find(M, devices, a)
    IN IF i = 0 THEN 255 ELSE DeviceReadValue(M, devices[i], a)

SystemBus_readByte(M, devices, a) ==
    LET i == SystemBus_find(M, devices, a)
    IN IF i = 0 THEN M ELSE DeviceRead(M, devices[i], a)

SystemBus_storeByte(M, devices, a, value) ==
    LET i == SystemBus_find(M, devices, a)
    IN IF i = 0 THEN M ELSE DeviceStore(M, devices[i], a, value)

(***************************************************************************)
(* MasterClock (timing/master_clock.cpp)                                   *)
(***************************************************************************)
MAIN_CPU_FREQ == 7159000
GRAPHICS_CPU_FREQ == 13500000
SOUND_CPU_FREQ == 4773000
FRAME_RATE == 60
CYCLES_PER_FRAME_MAIN == MAIN_CPU_FREQ \div FRAME_RATE
CYCLES_PER_FRAME_GRAPHICS == GRAPHICS_CPU_FREQ \div FRAME_RATE
CYCLES_PER_FRAME_SOUND == SOUND_CPU_FREQ \div FRAME_RATE

\* MasterClock::reset
MasterClock_reset(clk) ==
    [mainCPUCycles |-> 0, graphicsCPUCycles |-> 0, soundCPUCycles |-> 0,
     frameCount |-> 0,
     targetMainCycles |-> CYCLES_PER_FRAME_MAIN,
     targetGraphicsCycles |-> CYCLES_PER_FRAME_GRAPHICS,
     targetSoundCycles |-> CYCLES_PER_FRAME_SOUND]

\* Emulator::clock before initialize(): no MasterClock exists
NullClock ==
    [mainCPUCycles |-> 0, graphicsCPUCycles |-> 0, soundCPUCycles |-> 0,
     frameCount |-> 0, targetMainCycles |-> 0, targetGraphicsCycles |-> 0,
     targetSoundCycles |-> 0]

\* MasterClock::MasterClock, which ends in reset()
NewMasterClock == MasterClock_reset(NullClock)

\* mutant of MasterClock_runFrame: the frame counter is left alone
MasterClock_runFrame_NoCount(clk) ==
    [clk EXCEPT !.targetMainCycles = clk.mainCPUCycles + CYCLES_PER_FRAME_MAIN,
                !.targetGraphicsCycles = clk.graphicsCPUCycles + CYCLES_PER_FRAME_GRAPHICS,
                !.targetSoundCycles = clk.soundCPUCycles + CYCLES_PER_FRAME_SOUND]

\* MasterClock::runFrame: arm the three budgets, count the frame
MasterClock_runFrame(clk) ==
    [clk EXCEPT !.targetMainCycles = clk.mainCPUCycles + CYCLES_PER_FRAME_MAIN,
                !.targetGraphicsCycles = clk.graphicsCPUCycles + CYCLES_PER_FRAME_GRAPHICS,
                !.targetSoundCycles = clk.soundCPUCycles + CYCLES_PER_FRAME_SOUND,
                !.frameCount = clk.frameCount + 1]

shouldRunMainCPU(clk) == clk.mainCPUCycles < clk.targetMainCycles

shouldRunGraphicsCPU(clk) == clk.graphicsCPUCycles < clk.targetGraphicsCycles

shouldRunSoundCPU(clk) == clk.soundCPUCycles < clk.targetSoundCycles

(***************************************************************************)
(* VideoRenderer (video/video_renderer.cpp)                                *)
(***************************************************************************)
\* the frame buffer is held as the VRAM bytes its pixels were last drawn from;
\* no byte drawn is the all-black buffer of VideoRenderer::reset
NullFramebuffer == [exists |-> FALSE, vram |-> Empty]

\* VideoRenderer::VideoRenderer, which ends in reset()
NewFramebuffer == [exists |-> TRUE, vram |-> Empty]

\* VideoRenderer::renderFrame: every line is drawn from the VRAM
renderFrame(fb, vram) == [fb EXCEPT !.vram = vram.data]

(***************************************************************************)
(* State                                                                   *)
(***************************************************************************)
VARIABLES
    initialized, running, paused,   \* Emulator flags
    mainRAM, graphicsRAM, soundRAM, \* RAM objects
    mailboxA, mailboxB,             \* Mailbox objects
    carts, cartridge,               \* Cartridge objects created; the live one
    busDevs,                        \* device list of each CPU's SystemBus
    cpu,                            \* pins and program address of each CPU
    cpld2,                          \* CPLD2_Video registers
    clock,                          \* MasterClock
    framebuffer,                    \* VideoRenderer::framebuffer
    mainProbed,                     \* runMainCPU has been called (its static callCount)
    crashed,                        \* the process died in undefined behaviour
    ops,                            \* bus accesses made so far
    boot,                           \* boot message being delivered byte by byte
    released,                       \* coprocessors whose boot-copy command was handled
    ev,                             \* the last operation and what it invoked
    unitMailbox, unitCallback,      \* a Mailbox on its own and the callback bound to it
    unitLog,                        \* the last operation on that Mailbox
    mappedRegions,                  \* MemoryBus::mappedRegions
    registrations,                  \* the mapDevice calls that took effect, in call order
    deviceMem,                      \* what each device behind the MemoryBus holds
    busLog                          \* the last operation on the MemoryBus

VARIABLES
    unitCart,                       \* a Cartridge on its own
    cartLog,                        \* the last operation on that Cartridge
    unitVideo,                      \* a CPLD2_Video on its own
    videoCallback,                  \* whether its vblankCallback is set
    videoLog,                       \* ticks and IRQs since its last reset
    unitAudio,                      \* a CPLD1_Audio on its own
    audioLog,                       \* the last operation on it
    audioCallback,                  \* whether its irqCallback is set
    unitRaster,                     \* a CPLD2_Video followed over whole frames
    rasterCallback,                 \* whether its vblankCallback is set
    rasterLog,                      \* the last operation on it
    unitCpld3,                      \* a CPLD3_Raster on its own
    cpld3Callback,                  \* whether its irqCallback is set
    cpld3Log,                       \* the last operation on it
    unitRenderer,                   \* a VideoRenderer with its CPLD2_Video and VRAM
    rendererLog,                    \* the last operation on them
    unitClock,                      \* a MasterClock on its own
    clockCallback,                  \* whether its onVBlank is set
    clockLog                        \* the last operation on it

machineVars == <<initialized, running, paused, mainRAM, graphicsRAM, soundRAM,
                 mailboxA, mailboxB, carts, cartridge, busDevs, cpu, cpld2, clock,
                 framebuffer, mainProbed, crashed, ops, boot, released, ev>>

mailboxUnitVars == <<unitMailbox, unitCallback, unitLog>>

busUnitVars == <<mappedRegions, registrations, deviceMem, busLog>>

cartUnitVars == <<unitCart, cartLog>>

videoUnitVars == <<unitVideo, videoCallback, videoLog>>

audioUnitVars == <<unitAudio, audioLog, audioCallback>>

rasterUnitVars == <<unitRaster, rasterCallback, rasterLog>>

cpld3UnitVars == <<unitCpld3, cpld3Callback, cpld3Log>>

rendererUnitVars == <<unitRenderer, rendererLog>>

clockUnitVars == <<unitClock, clockCallback, clockLog>>

boardUnitVars == <<rasterUnitVars, cpld3UnitVars, rendererUnitVars, clockUnitVars>>

\* the components exercised on their own
deviceUnitVars == <<cartUnitVars, videoUnitVars, audioUnitVars, boardUnitVars>>

exceptRasterVars == <<machineVars, mailboxUnitVars, busUnitVars, cartUnitVars,
                      videoUnitVars, audioUnitVars, cpld3UnitVars, rendererUnitVars,
                      clockUnitVars>>

exceptCpld3Vars == <<machineVars, mailboxUnitVars, busUnitVars, cartUnitVars,
                     videoUnitVars, audioUnitVars, rasterUnitVars, rendererUnitVars,
                     clockUnitVars>>

exceptRendererVars == <<machineVars, mailboxUnitVars, busUnitVars, cartUnitVars,
                        videoUnitVars, audioUnitVars, rasterUnitVars, cpld3UnitVars,
                        clockUnitVars>>

exceptClockVars == <<machineVars, mailboxUnitVars, busUnitVars, cartUnitVars,
                     videoUnitVars, audioUnitVars, rasterUnitVars, cpld3UnitVars,
                     rendererUnitVars>>

vars == <<machineVars, mailboxUnitVars, busUnitVars, deviceUnitVars>>

Machine ==
    [mainRAM |-> mainRAM, graphicsRAM |-> graphicsRAM, soundRAM |-> soundRAM,
     mailboxA |-> mailboxA, mailboxB |-> mailboxB, carts |-> carts,
     cartridge |-> cartridge, cpu |-> cpu, trace |-> <<>>]

MachineNext ==
    [mainRAM |-> mainRAM', graphicsRAM |-> graphicsRAM', soundRAM |-> soundRAM',
     mailboxA |-> mailboxA', mailboxB |-> mailboxB', carts |-> carts',
     cartridge |-> cartridge', cpu |-> cpu', trace |-> <<>>]

SetMachine(M) ==
    /\ mainRAM' = M.mainRAM
    /\ graphicsRAM' = M.graphicsRAM
    /\ soundRAM' = M.soundRAM
    /\ mailboxA' = M.mailboxA
    /\ mailboxB' = M.mailboxB
    /\ carts' = M.carts
    /\ cpu' = M.cpu

memVars == <<mainRAM, graphicsRAM, soundRAM, mailboxA, mailboxB, carts, cpu>>

NoBoot == [mbox |-> "none", msg |-> <<>>, pos |-> 0, before |-> NewRAM(0, 0)]

\* the coprocessors a store released through a CPLD boot-copy, read off what it invoked
BootHandled(trace) ==
    {c \in {"graphics", "sound"} :
        /\ \E k \in 1..Len(trace) : trace[k][1] = (IF c = "graphics" THEN "cbA" ELSE "cbB")
        /\ \E k \in 1..Len(trace) : trace[k][1] = "reset"}

Event(op, bus, addr, value, ret, trace) ==
    [op |-> op, bus |-> bus, addr |-> addr, value |-> value, ret |-> ret, trace |-> trace]

\* Emulator::Emulator(): no component exists yet
MachineInit ==
    /\ initialized = FALSE
    /\ running = FALSE
    /\ paused = FALSE
    /\ mainRAM = NullRAM
    /\ graphicsRAM = NullRAM
    /\ soundRAM = NullRAM
    /\ mailboxA = NullMailbox
    /\ mailboxB = NullMailbox
    /\ carts = <<>>
    /\ cartridge = 0
    /\ busDevs = [c \in CpuNames |-> <<>>]
    /\ cpu = [c \in CpuNames |-> NewCpu]
    /\ cpld2 = NullCPLD2
    /\ clock = NullClock
    /\ framebuffer = NullFramebuffer
    /\ mainProbed = FALSE
    /\ crashed = FALSE
    /\ ops = 0
    /\ boot = NoBoot
    /\ released = {}
    /\ ev = Event("construct", "", 0, 0, 0, <<>>)

(***************************************************************************)
(* Emulator (emulator.cpp)                                                 *)
(***************************************************************************)
\* Emulator::initializeMemory
MAIN_RAM_SIZE == 131072
GRAPHICS_RAM_SIZE == 131072
SOUND_RAM_SIZE == 65536
MAILBOX_A_BASE == 4194304
MAILBOX_B_BASE == 4259840
MAILBOX_SIZE == 1024

\* Emulator::initializeCPUs: every CPU ready, the Main CPU held in reset
InitialCpus ==
    [c \in CpuNames |->
        IF c = "main" THEN setRESPin(setRDYPin(NewCpu, TRUE), TRUE)
        ELSE setRDYPin(NewCpu, TRUE)]

\* mutant of InitialBusDevs: the Graphics bus is given the Main RAM
InitialBusDevs_SharedRAM ==
    [c \in CpuNames |->
        CASE c = "main" -> <<Dev("mainRAM"), Dev("mailboxA"), Dev("mailboxB")>>
          [] c = "graphics" -> <<Dev("mainRAM"), Dev("mailboxA")>>
          [] c = "sound" -> <<Dev("soundRAM"), Dev("mailboxB")>>]

\* Emulator::setupMemoryMaps
InitialBusDevs ==
    [c \in CpuNames |->
        CASE c = "main" -> <<Dev("mainRAM"), Dev("mailboxA"), Dev("mailboxB")>>
          [] c = "graphics" -> <<Dev("graphicsRAM"), Dev("mailboxA")>>
          [] c = "sound" -> <<Dev("soundRAM"), Dev("mailboxB")>>]

Delivering == boot.mbox # "none" /\ boot.pos < Len(boot.msg)

\* Emulator::initialize
Initialize ==
    /\ ~initialized
    /\ ~crashed
    /\ initialized' = TRUE
    /\ mainRAM' = NewRAM(0, MAIN_RAM_SIZE)
    /\ graphicsRAM' = NewRAM(0, GRAPHICS_RAM_SIZE)
    /\ soundRAM' = NewRAM(0, SOUND_RAM_SIZE)
    /\ mailboxA' = NewMailbox(MAILBOX_A_BASE, MAILBOX_SIZE)
    /\ mailboxB' = NewMailbox(MAILBOX_B_BASE, MAILBOX_SIZE)
    /\ cpu' = InitialCpus
    /\ busDevs' = InitialBusDevs
    /\ cpld2' = NewCPLD2
    /\ clock' = NewMasterClock
    /\ framebuffer' = NewFramebuffer
    /\ ev' = Event("initialize", "", 0, 0, 0, <<>>)
    /\ UNCHANGED <<running, paused, carts, cartridge, mainProbed, crashed, ops, boot, released>>
    /\ UNCHANGED <<mailboxUnitVars, busUnitVars, deviceUnitVars>>

\* Emulator::loadROM(filename): a new Cartridge replaces (and destroys) the old one;
\* on success it is appended to the three buses, which still hold the old pointers
LoadROM(file) ==
    /\ initialized
    /\ ~crashed
    /\ ~Delivering
    /\ Len(carts) < MaxLoads
    /\ LET r == Cartridge_loadROM(NewCartridge, file)
           g == Len(carts) + 1
       IN /\ carts' = Append(carts, r.cart)
          /\ cartridge' = IF r.ok THEN g ELSE 0
          /\ busDevs' = IF r.ok
                        THEN [c \in CpuNames |-> Append(busDevs[c], CartDev(g))]
                        ELSE busDevs
          /\ ev' = Event("loadROM", "", 0, 0, IF r.ok THEN 1 ELSE 0, <<>>)
    /\ boot' = NoBoot
    /\ UNCHANGED <<initialized, running, paused, mainRAM, graphicsRAM, soundRAM,
                   mailboxA, mailboxB, cpu, cpld2, clock, framebuffer, mainProbed, crashed,
                   ops, released>>
    /\ UNCHANGED <<mailboxUnitVars, busUnitVars, deviceUnitVars>>

(***************************************************************************)
(* Bus accesses: SystemBus::storeByte / readByte on one CPU's bus          *)
(***************************************************************************)
\* a store whose walk calls into a destroyed Cartridge either kills the process
\* or finds the stale object still answering
BusStore(c, a, value, op) ==
    /\ \/ /\ SystemBus_dangling(Machine, busDevs[c], a)
          /\ crashed' = TRUE
          /\ ev' = Event("crash", c, a, value, 0, <<>>)
          /\ UNCHANGED <<memVars, released>>
       \/ /\ LET M == SystemBus_storeByte(Machine, busDevs[c], a, value)
             IN /\ SetMachine(M)
                /\ released' = released \cup BootHandled(M.trace)
                /\ ev' = Event(op, c, a, value, 0, M.trace)
          /\ crashed' = crashed
    /\ UNCHANGED <<initialized, running, paused, cartridge, busDevs, cpld2, clock,
                   framebuffer, mainProbed>>
    /\ UNCHANGED <<mailboxUnitVars, busUnitVars, deviceUnitVars>>

BusLoad(c, a) ==
    /\ \/ /\ SystemBus_dangling(Machine, busDevs[c], a)
          /\ crashed' = TRUE
          /\ ev' = Event("crash", c, a, 0, 0, <<>>)
          /\ UNCHANGED memVars
       \/ /\ SetMachine(SystemBus_readByte(Machine, busDevs[c], a))
          /\ ev' = Event("read", c, a, 0, SystemBus_readValue(Machine, busDevs[c], a), <<>>)
          /\ crashed' = crashed
    /\ UNCHANGED <<initialized, running, paused, cartridge, busDevs, cpld2, clock,
                   framebuffer, mainProbed, released>>
    /\ UNCHANGED <<mailboxUnitVars, busUnitVars, deviceUnitVars>>

\* addresses and bytes the general accesses draw from
WriteAddrs(c) ==
    CASE c = "main" -> {16, MAILBOX_A_BASE, MAILBOX_A_BASE + 512, MAILBOX_A_BASE + 1024,
                        MAILBOX_B_BASE, BANK_REGISTER}
      [] c = "graphics" -> {16, MAILBOX_A_BASE, BANK_REGISTER}
      [] c = "sound" -> {16, MAILBOX_B_BASE}

ReadAddrs(c) ==
    CASE c = "main" -> {MAILBOX_A_BASE + 512, MAILBOX_A_BASE + 1024}
      [] c = "graphics" -> {ROM_WINDOW_START}
      [] c = "sound" -> {ROM_WINDOW_START}

WriteValues == {1, 2}

BusWrite(c, a, value) ==
    /\ initialized
    /\ ~crashed
    /\ ~Delivering
    /\ ops < MaxOps
    /\ ops' = ops + 1
    /\ boot' = NoBoot
    /\ BusStore(c, a, value, "write")

BusRead(c, a) ==
    /\ initialized
    /\ ~crashed
    /\ ~Delivering
    /\ ops < MaxOps
    /\ ops' = ops + 1
    /\ boot' = NoBoot
    /\ BusLoad(c, a)

(***************************************************************************)
(* A boot-copy message written by the Main CPU, one byte per store, in     *)
(* ascending offset order, to a freshly initialized machine                *)
(***************************************************************************)
PayloadByte(i) == IF i <= 3 THEN <<222, 173, 190>>[i] ELSE 16 + i

BootMsg(dest, len) ==
    <<1, dest % 256, dest \div 256, len % 256, len \div 256>>
        \o [i \in 1..len |-> PayloadByte(i)]

BootDests == {4096, 65535}

MailboxBase(mbox) == IF mbox = "A" THEN MAILBOX_A_BASE ELSE MAILBOX_B_BASE

BootBegin(mbox, dest, len) ==
    /\ initialized
    /\ ~crashed
    /\ ev.op = "initialize"
    /\ boot' = [mbox |-> mbox, msg |-> BootMsg(dest, len), pos |-> 1,
                 before |-> IF mbox = "A" THEN graphicsRAM ELSE soundRAM]
    /\ ops' = ops + 1
    /\ BusStore("main", MailboxBase(mbox), 1, "boot")

BootNext ==
    /\ Delivering
    /\ ~crashed
    /\ boot' = [boot EXCEPT !.pos = @ + 1]
    /\ ops' = ops
    /\ BusStore("main", MailboxBase(boot.mbox) + boot.pos, boot.msg[boot.pos + 1], "boot")

\* a second boot message, begun when the first one, delivered to the fresh
\* machine, is complete: the mailbox still holds the first message
BootAgain(mbox, dest, len) ==
    /\ initialized
    /\ ~crashed
    /\ ev.op = "boot"
    /\ ops < MaxOps
    /\ boot.mbox # "none"
    /\ boot.pos = Len(boot.msg)
    /\ boot.before = (IF boot.mbox = "A" THEN NewRAM(0, GRAPHICS_RAM_SIZE)
                      ELSE NewRAM(0, SOUND_RAM_SIZE))
    /\ boot' = [mbox |-> mbox, msg |-> BootMsg(dest, len), pos |-> 1,
                 before |-> IF mbox = "A" THEN graphicsRAM ELSE soundRAM]
    /\ ops' = ops + 1
    /\ BusStore("main", MailboxBase(mbox), 1, "boot")

\* boot messages delivered one after the other
BootNextMessages ==
    \/ Initialize
    \/ \E mbox \in {"A", "B"} : \E dest \in BootDests : \E len \in 0..MaxLen :
          BootBegin(mbox, dest, len)
    \/ \E mbox \in {"A", "B"} : \E dest \in BootDests : \E len \in 0..MaxLen :
          BootAgain(mbox, dest, len)
    \/ BootNext

(***************************************************************************)
(* Emulator life cycle (emulator.cpp), as the UI drives it                 *)
(***************************************************************************)
LiveCartridgeLoaded == cartridge # 0 /\ Cartridge_isLoaded(carts[cartridge])

\* Address(entryPoint >> 16, entryPoint & 0xFFFF)
EntryAddress(c, entryPoint) ==
    setProgramAddress(c, entryPoint \div OffsetSpace, entryPoint % OffsetSpace)

\* Emulator::reset, the part on the three CPUs
ResetCpus ==
    LET header == carts[cartridge].header
        main0 == setRESPin(setRESPin(cpu["main"], TRUE), FALSE)
        gfx0 == setRESPin(cpu["graphics"], FALSE)
        snd0 == setRESPin(setRESPin(cpu["sound"], TRUE), FALSE)
    IN [c \in CpuNames |->
          CASE c = "main" ->
                 IF LiveCartridgeLoaded
                 THEN EntryAddress(main0, header.mainCPU_entryPoint)
                 ELSE main0
            [] c = "graphics" ->
                 IF LiveCartridgeLoaded /\ header.graphicsCPU_entryPoint # 0
                 THEN EntryAddress(setRESPin(gfx0, FALSE), header.graphicsCPU_entryPoint)
                 ELSE gfx0
            [] c = "sound" ->
                 IF LiveCartridgeLoaded
                 THEN EntryAddress(snd0, header.soundCPU_entryPoint)
                 ELSE snd0]

LifeFrame == <<mailboxUnitVars, busUnitVars, deviceUnitVars, mainRAM, graphicsRAM, soundRAM,
               mailboxA, mailboxB, busDevs, cpld2, framebuffer, mainProbed, crashed, ops,
               released>>

\* Emulator::reset
Reset ==
    /\ initialized
    /\ ~crashed
    /\ ~Delivering
    /\ cpu' = ResetCpus
    /\ clock' = MasterClock_reset(clock)
    /\ boot' = NoBoot
    /\ ev' = Event("reset", "", 0, 0, 0, <<>>)
    /\ UNCHANGED <<initialized, running, paused, carts, cartridge>>
    /\ UNCHANGED LifeFrame

\* Emulator::unloadROM: the buses keep their pointers to the Cartridge destroyed here
UnloadROM ==
    /\ ~crashed
    /\ ~Delivering
    /\ running' = FALSE
    /\ cartridge' = 0
    /\ boot' = NoBoot
    /\ ev' = Event("unloadROM", "", 0, 0, 0, <<>>)
    /\ UNCHANGED <<initialized, paused, carts, cpu, clock>>
    /\ UNCHANGED LifeFrame

\* Emulator::run
Run ==
    /\ ~crashed
    /\ ~Delivering
    /\ IF initialized /\ LiveCartridgeLoaded
       THEN running' = TRUE /\ paused' = FALSE
       ELSE UNCHANGED <<running, paused>>
    /\ boot' = NoBoot
    /\ ev' = Event("run", "", 0, 0, IF initialized /\ LiveCartridgeLoaded THEN 1 ELSE 0, <<>>)
    /\ UNCHANGED <<initialized, carts, cartridge, cpu, clock>>
    /\ UNCHANGED LifeFrame

\* Emulator::stop
Stop ==
    /\ ~crashed
    /\ ~Delivering
    /\ running' = FALSE
    /\ boot' = NoBoot
    /\ ev' = Event("stop", "", 0, 0, 0, <<>>)
    /\ UNCHANGED <<initialized, paused, carts, cartridge, cpu, clock>>
    /\ UNCHANGED LifeFrame

\* Emulator::pause
Pause ==
    /\ ~crashed
    /\ ~Delivering
    /\ paused' = TRUE
    /\ boot' = NoBoot
    /\ ev' = Event("pause", "", 0, 0, 0, <<>>)
    /\ UNCHANGED <<initialized, running, carts, cartridge, cpu, clock>>
    /\ UNCHANGED LifeFrame

\* Emulator::resume
Resume ==
    /\ ~crashed
    /\ ~Delivering
    /\ paused' = FALSE
    /\ boot' = NoBoot
    /\ ev' = Event("resume", "", 0, 0, 0, <<>>)
    /\ UNCHANGED <<initialized, running, carts, cartridge, cpu, clock>>
    /\ UNCHANGED LifeFrame

\* the addresses runMainCPU reads on its first call: the opcode at the Main CPU's
\* program address and, after an 0x8F, the three bytes that follow
MainProbeAddrs ==
    LET pc == Flat(cpu["main"].PC[1], cpu["main"].PC[2])
    IN IF SystemBus_readValue(Machine, busDevs["main"], pc) = 143
       THEN <<pc, (pc + 1) % AddrSpace, (pc + 2) % AddrSpace, (pc + 3) % AddrSpace>>
       ELSE <<pc>>

RECURSIVE ReadAll(_, _, _)
ReadAll(M, devices, addrs) ==
    IF addrs = <<>> THEN M
    ELSE ReadAll(SystemBus_readByte(M, devices, Head(addrs)), devices, Tail(addrs))

\* mutant of FrameEvent: the renderer is called before the Graphics CPU runs
FrameEvent_RenderFirst(ran) ==
    IF ran
    THEN Event("runFrame", "", 0, 0, 1,
               << <<"run", "main", 59667>>, <<"render", "", 0>>,
                  <<"run", "graphics", 59667>>, <<"run", "sound", 59667>> >>)
    ELSE Event("runFrame", "", 0, 0, 0, <<>>)

FrameEvent(ran) ==
    IF ran
    THEN Event("runFrame", "", 0, 0, 1,
               << <<"run", "main", 59667>>, <<"run", "graphics", 59667>>,
                  <<"run", "sound", 59667>>, <<"render", "", 0>> >>)
    ELSE Event("runFrame", "", 0, 0, 0, <<>>)

\* mutant of FrameRuns: a paused emulator still runs its frames
FrameRuns_IgnorePause(run, psd) == run

\* Emulator::runFrame returns at once unless running and not paused
FrameRuns(run, psd) == run /\ ~psd

\* Emulator::runFrame: the clock, then the three CPUs in turn, then the renderer; what
\* the CPUs' instructions store is the bus accesses of BusWrite
RunFrame ==
    /\ ~crashed
    /\ ~Delivering
    /\ FrameRuns(running, paused) => clock.frameCount < MaxFrames
    /\ boot' = NoBoot
    /\ IF FrameRuns(running, paused)
       THEN /\ mainProbed' = TRUE
            /\ clock' = MasterClock_runFrame(clock)
            /\ IF ~mainProbed
               THEN \/ /\ \E k \in 1..Len(MainProbeAddrs) :
                             SystemBus_dangling(Machine, busDevs["main"], MainProbeAddrs[k])
                       /\ crashed' = TRUE
                       /\ ev' = Event("crash", "main", MainProbeAddrs[1], 0, 0, <<>>)
                       /\ UNCHANGED <<memVars, framebuffer>>
                    \/ /\ SetMachine(ReadAll(Machine, busDevs["main"], MainProbeAddrs))
                       /\ crashed' = crashed
                       /\ ev' = FrameEvent(TRUE)
                       /\ framebuffer' = renderFrame(framebuffer, graphicsRAM')
               ELSE /\ UNCHANGED <<memVars, crashed>>
                    /\ ev' = FrameEvent(TRUE)
                    /\ framebuffer' = renderFrame(framebuffer, graphicsRAM')
       ELSE /\ UNCHANGED <<memVars, crashed, mainProbed, clock, framebuffer>>
            /\ ev' = FrameEvent(FALSE)
    /\ UNCHANGED <<initialized, running, paused, cartridge, busDevs, cpld2, ops, released>>
    /\ UNCHANGED <<mailboxUnitVars, busUnitVars, deviceUnitVars>>

LifeNext ==
    \/ Initialize
    \/ \E file \in RomFiles : LoadROM(file)
    \/ UnloadROM
    \/ Reset
    \/ Run
    \/ Stop
    \/ Pause
    \/ Resume
    \/ RunFrame
    \/ \E mbox \in {"A", "B"} : \E value \in WriteValues :
          BusWrite("main", MailboxBase(mbox), value)

\* the frame loop: life-cycle calls, frames, and what the Graphics CPU's
\* instructions store in VRAM between frames
FrameNext ==
    \/ Initialize
    \/ LoadROM(RomDirect)
    \/ Reset
    \/ Run
    \/ Stop
    \/ Pause
    \/ Resume
    \/ RunFrame
    \/ \E value \in WriteValues : BusWrite("graphics", 16, value)

(***************************************************************************)
(* A Mailbox on its own (memory/mailbox.cpp), with each kind of write      *)
(* callback: "none" is no callback bound, "notify" one that leaves the     *)
(* mailbox alone, "reader" one that reads offset 0 as the CPLD handlers do *)
(***************************************************************************)
CallbackKinds == {"none", "notify", "reader"}

\* Mailbox::storeByte: the mailbox left behind, the calls of writeCallback made and
\* the mailbox as the callback finds it
Mailbox_storeByte(mb, flatAddr, value, callback) ==
    LET stored == Mailbox_storeData(mb, flatAddr, value)
        called == Mailbox_storeNotifies(mb, flatAddr) /\ callback # "none"
    IN [mb |-> IF called /\ callback = "reader"
               THEN Mailbox_readByte(stored, mb.baseAddress)
               ELSE stored,
        calls |-> IF called THEN 1 ELSE 0,
        seen |-> stored]

UnitAddrs == {MAILBOX_A_BASE, MAILBOX_A_BASE + 5, MAILBOX_A_BASE + MAILBOX_SIZE - 1,
              MAILBOX_A_BASE + MAILBOX_SIZE, MAILBOX_A_BASE - 1, 0}

UnitValues == {0, 1, 255}

UnitEvent(op, addr, value, ret, calls, before, seen) ==
    [op |-> op, addr |-> addr, value |-> value, ret |-> ret, calls |-> calls,
     before |-> before, seen |-> seen]

MailboxUnitInit ==
    /\ unitMailbox = NewMailbox(MAILBOX_A_BASE, MAILBOX_SIZE)
    /\ unitCallback = "none"
    /\ unitLog = UnitEvent("construct", 0, 0, 0, 0, NullMailbox, NullMailbox)

\* Mailbox::setWriteCallback
UnitSetWriteCallback(callback) ==
    /\ unitCallback # callback
    /\ unitCallback' = callback
    /\ unitLog' = UnitEvent("setWriteCallback", 0, 0, 0, 0, unitMailbox, unitMailbox)
    /\ UNCHANGED <<unitMailbox, machineVars, busUnitVars, deviceUnitVars>>

UnitStore(a, value) ==
    /\ LET r == Mailbox_storeByte(unitMailbox, a, value, unitCallback)
       IN /\ unitMailbox' = r.mb
          /\ unitLog' = UnitEvent("store", a, value, 0, r.calls, unitMailbox, r.seen)
    /\ UNCHANGED <<unitCallback, machineVars, busUnitVars, deviceUnitVars>>

UnitRead(a) ==
    /\ unitMailbox' = Mailbox_readByte(unitMailbox, a)
    /\ unitLog' = UnitEvent("read", a, 0, Mailbox_readValue(unitMailbox, a), 0,
                            unitMailbox, unitMailbox)
    /\ UNCHANGED <<unitCallback, machineVars, busUnitVars, deviceUnitVars>>

UnitClear ==
    /\ unitMailbox' = Mailbox_clear(unitMailbox)
    /\ unitLog' = UnitEvent("clear", 0, 0, 0, 0, unitMailbox, unitMailbox)
    /\ UNCHANGED <<unitCallback, machineVars, busUnitVars, deviceUnitVars>>

MailboxNext ==
    \/ \E callback \in CallbackKinds : UnitSetWriteCallback(callback)
    \/ \E a \in UnitAddrs : \E value \in UnitValues : UnitStore(a, value)
    \/ \E a \in UnitAddrs : UnitRead(a)
    \/ UnitClear

(***************************************************************************)
(* MemoryBus on its own (memory/memory_bus.cpp).  A device behind it is a  *)
(* byte store addressed by the full bus address; until written, a byte of  *)
(* device d reads DeviceFill(d), so that the devices tell apart.           *)
(***************************************************************************)
DeviceIds == {1, 2}

DeviceFill(d) == 160 + d

\* MemoryDevice::read
Device_read(mem, d, address) == Get(mem[d], address, DeviceFill(d))

\* MemoryDevice::write
Device_write(mem, d, address, value) ==
    [mem EXCEPT ![d] = Put(@, address, value, DeviceFill(d))]

\* the MappedRegion mapDevice builds
NewRegion(device, baseAddress, size) ==
    [baseAddress |-> baseAddress % AddrSpace,
     endAddress |-> (baseAddress + size - 1) % AddrSpace,
     device |-> device]

RegionHolds(region, address) ==
    address >= region.baseAddress /\ address <= region.endAddress

\* the orders std::sort by baseAddress may leave: it is not a stable sort
SortedByBase(regions) ==
    {s \in {[i \in 1..Len(regions) |-> regions[perm[i]]] :
                perm \in Permutations(1..Len(regions))} :
        \A i \in 1..Len(s) : \A j \in 1..Len(s) :
            i < j => s[i].baseAddress <= s[j].baseAddress}

\* MemoryBus::findDevice: 0 is nullptr
RECURSIVE FindDeviceFrom(_, _, _)
FindDeviceFrom(regions, address, i) ==
    IF i > Len(regions) THEN 0
    ELSE IF RegionHolds(regions[i], address) THEN regions[i].device
    ELSE IF address < regions[i].baseAddress THEN 0
    ELSE FindDeviceFrom(regions, address, i + 1)

findDevice(regions, address) == FindDeviceFrom(regions, address % AddrSpace, 1)

\* MemoryBus::read
MemoryBus_read(regions, mem, address) ==
    LET device == findDevice(regions, address)
    IN IF device # 0 THEN Device_read(mem, device, address % AddrSpace) ELSE 255

\* MemoryBus::write
MemoryBus_write(regions, mem, address, value) ==
    LET device == findDevice(regions, address)
    IN IF device # 0 THEN Device_write(mem, device, address % AddrSpace, value) ELSE mem

BusEvent(op, address, value, ret, before) ==
    [op |-> op, address |-> address, value |-> value, ret |-> ret, before |-> before]

BusUnitInit ==
    /\ mappedRegions = <<>>
    /\ registrations = <<>>
    /\ deviceMem = [d \in DeviceIds |-> Empty]
    /\ busLog = BusEvent("construct", 0, 0, 0, [d \in DeviceIds |-> Empty])

MapBases == {0, 16}

MapSizes == {0, 16, 48}

BusAddrs == {8, 21, 40, 100}

\* MemoryBus::mapDevice
MapDevice(device, baseAddress, size) ==
    /\ Len(registrations) < MaxMaps
    /\ IF size = 0
       THEN UNCHANGED <<mappedRegions, registrations>>
       ELSE /\ mappedRegions' \in
                   SortedByBase(Append(mappedRegions, NewRegion(device, baseAddress, size)))
            /\ registrations' = Append(registrations, NewRegion(device, baseAddress, size))
    /\ busLog' = BusEvent("mapDevice", baseAddress, size, 0, deviceMem)
    /\ UNCHANGED <<deviceMem, machineVars, mailboxUnitVars, deviceUnitVars>>

\* MemoryBus::unmapAll
UnmapAll ==
    /\ mappedRegions # <<>>
    /\ mappedRegions' = <<>>
    /\ registrations' = <<>>
    /\ busLog' = BusEvent("unmapAll", 0, 0, 0, deviceMem)
    /\ UNCHANGED <<deviceMem, machineVars, mailboxUnitVars, deviceUnitVars>>

MemoryBusRead(address) ==
    /\ busLog' = BusEvent("read", address, 0,
                          MemoryBus_read(mappedRegions, deviceMem, address), deviceMem)
    /\ UNCHANGED <<mappedRegions, registrations, deviceMem, machineVars, mailboxUnitVars, deviceUnitVars>>

MemoryBusWrite(address, value) ==
    /\ deviceMem' = MemoryBus_write(mappedRegions, deviceMem, address, value)
    /\ busLog' = BusEvent("write", address, value, 0, deviceMem)
    /\ UNCHANGED <<mappedRegions, registrations, machineVars, mailboxUnitVars, deviceUnitVars>>

MemoryBusNext ==
    \/ \E device \in DeviceIds : \E baseAddress \in MapBases : \E size \in MapSizes :
          MapDevice(device, baseAddress, size)
    \/ UnmapAll
    \/ \E address \in BusAddrs : MemoryBusRead(address)
    \/ \E address \in {21, 100} : MemoryBusWrite(address, 1)

(***************************************************************************)
(* A Cartridge on its own (cartridge.cpp)                                  *)
(***************************************************************************)
\* Cartridge::loadROM(data, size); data: [null, size, bytes]
Cartridge_loadROMFromMemory(cart, data) ==
    IF data.null \/ data.size = 0 THEN [ok |-> FALSE, cart |-> cart]
    ELSE IF data.size > BANK_SIZE * MAX_BANKS THEN [ok |-> FALSE, cart |-> cart]
    ELSE [ok |-> TRUE,
          cart |-> [parseHeader([cart EXCEPT !.rom = [size |-> data.size, bytes |-> data.bytes]])
                        EXCEPT !.currentBank = 0]]

\* Cartridge::unload
Cartridge_unload(cart) == NewCartridge

\* Cartridge::createSaveRAM: 64 KB of 0xFF unless save RAM exists
createSaveRAM(cart) ==
    IF cart.saveRAM.size = 0
    THEN [cart EXCEPT !.saveRAM = [size |-> SAVE_RAM_SIZE, data |-> Empty]]
    ELSE cart

\* a 3-byte image, too short for a header
RomTiny == [open |-> TRUE, readOk |-> TRUE, size |-> 3,
            bytes |-> Put(Put(Put(Empty, 0, 7, 0), 1, 8, 0), 2, 9, 0)]

EmptyFile == [open |-> TRUE, readOk |-> TRUE, size |-> 0, bytes |-> Empty]

\* one byte more than 64 MB
HugeFile == [open |-> TRUE, readOk |-> TRUE, size |-> BANK_SIZE * MAX_BANKS + 1,
             bytes |-> Put(Empty, 0, 1, 0)]

\* a file whose read fails after it was opened and sized
BadFile == [open |-> TRUE, readOk |-> FALSE, size |-> 3, bytes |-> Empty]

\* CountedBytes(n): bytes 1, 2, .. n at offsets 0 .. n - 1
CountedBytes(n) == [a \in 0..(n - 1) |-> a + 1]

\* a 256-byte image, just a header, whose first 64 bytes all differ
RomTitled == [open |-> TRUE, readOk |-> TRUE, size |-> 256, bytes |-> CountedBytes(64)]

CartFiles == {RomDirect, RomTiny, RomTitled, MissingFile, EmptyFile, HugeFile, BadFile}

Buffer(file) == [null |-> FALSE, size |-> file.size, bytes |-> file.bytes]

CartBuffers == {Buffer(RomDirect), Buffer(RomTiny), Buffer(RomTitled), Buffer(EmptyFile),
                Buffer(HugeFile),
                [null |-> TRUE, size |-> 3, bytes |-> Empty]}

\* Emulator::loadROMFromMemory(data, size): a new Cartridge replaces (and destroys)
\* the old one; no bus is told of it
LoadROMFromMemory(data) ==
    /\ initialized
    /\ ~crashed
    /\ ~Delivering
    /\ Len(carts) < MaxLoads
    /\ LET r == Cartridge_loadROMFromMemory(NewCartridge, data)
           g == Len(carts) + 1
       IN /\ carts' = Append(carts, r.cart)
          /\ cartridge' = IF r.ok THEN g ELSE 0
          /\ ev' = Event("loadROMFromMemory", "", 0, 0, IF r.ok THEN 1 ELSE 0, <<>>)
    /\ boot' = NoBoot
    /\ UNCHANGED <<initialized, running, paused, mainRAM, graphicsRAM, soundRAM,
                   mailboxA, mailboxB, busDevs, cpu, cpld2, clock, framebuffer, mainProbed,
                   crashed, ops, released>>
    /\ UNCHANGED <<mailboxUnitVars, busUnitVars, deviceUnitVars>>

\* ROM-window addresses read after a load: the first byte, a header byte in
\* which RomBoot and RomDirect differ, the last byte
RomProbeAddrs == {ROM_WINDOW_START, ROM_WINDOW_START + 4, ROM_WINDOW_END}

\* loads, through both entry points, and reads of the ROM window on each bus
ReloadNext ==
    \/ Initialize
    \/ \E file \in RomFiles : LoadROM(file)
    \/ \E data \in {Buffer(RomBoot), Buffer(RomDirect), Buffer(EmptyFile)} :
          LoadROMFromMemory(data)
    \/ UnloadROM
    \/ \E c \in CpuNames : \E a \in RomProbeAddrs : BusRead(c, a)

\* bank register, ROM window (first, second, last byte), save RAM (first and last
\* byte), bank-0 mirror,
\* reset vector, and an address the cartridge does not decode
CartAddrs == {BANK_REGISTER, ROM_WINDOW_START, ROM_WINDOW_START + 1, ROM_WINDOW_END,
              SAVE_RAM_START, SAVE_RAM_END, 32768, 65532, 16}

\* bytes written to the bank register: below 16, and above (16, 17, 255)
CartBanks == {0, 1, 2, 15, 16, 17, 255}

CartBytes == {0, 90}

CartEvent(op, addr, value, ret, before, lastBank) ==
    [op |-> op, addr |-> addr, value |-> value, ret |-> ret, before |-> before,
     lastBank |-> lastBank]

CartUnitInit ==
    /\ unitCart = NewCartridge
    /\ cartLog = CartEvent("construct", 0, 0, 0, NewCartridge, -1)

CartLoadROM(file) ==
    /\ LET r == Cartridge_loadROM(unitCart, file)
       IN /\ unitCart' = r.cart
          /\ cartLog' = CartEvent("loadFile", 0, file, r.ok, unitCart,
                                  IF r.ok THEN -1 ELSE cartLog.lastBank)
    /\ UNCHANGED <<machineVars, mailboxUnitVars, busUnitVars, videoUnitVars, audioUnitVars, boardUnitVars>>

CartLoadROMFromMemory(data) ==
    /\ LET r == Cartridge_loadROMFromMemory(unitCart, data)
       IN /\ unitCart' = r.cart
          /\ cartLog' = CartEvent("loadMemory", 0, data, r.ok, unitCart,
                                  IF r.ok THEN -1 ELSE cartLog.lastBank)
    /\ UNCHANGED <<machineVars, mailboxUnitVars, busUnitVars, videoUnitVars, audioUnitVars, boardUnitVars>>

CartUnload ==
    /\ unitCart' = Cartridge_unload(unitCart)
    /\ cartLog' = CartEvent("unload", 0, 0, 0, unitCart, -1)
    /\ UNCHANGED <<machineVars, mailboxUnitVars, busUnitVars, videoUnitVars, audioUnitVars, boardUnitVars>>

CartCreateSaveRAM ==
    /\ unitCart' = createSaveRAM(unitCart)
    /\ cartLog' = CartEvent("createSaveRAM", 0, 0, 0, unitCart, cartLog.lastBank)
    /\ UNCHANGED <<machineVars, mailboxUnitVars, busUnitVars, videoUnitVars, audioUnitVars, boardUnitVars>>

CartStore(a, value) ==
    /\ unitCart' = Cartridge_storeByte(unitCart, a, value)
    /\ cartLog' = CartEvent("store", a, value, 0, unitCart,
                            IF a = BANK_REGISTER THEN value ELSE cartLog.lastBank)
    /\ UNCHANGED <<machineVars, mailboxUnitVars, busUnitVars, videoUnitVars, audioUnitVars, boardUnitVars>>

CartRead(a) ==
    /\ unitCart' = unitCart
    /\ cartLog' = CartEvent("read", a, 0, Cartridge_readByte(unitCart, a), unitCart,
                            cartLog.lastBank)
    /\ UNCHANGED <<machineVars, mailboxUnitVars, busUnitVars, videoUnitVars, audioUnitVars, boardUnitVars>>

CartNext ==
    \/ \E file \in CartFiles : CartLoadROM(file)
    \/ \E data \in CartBuffers : CartLoadROMFromMemory(data)
    \/ CartUnload
    \/ CartCreateSaveRAM
    \/ \E value \in CartBanks : CartStore(BANK_REGISTER, value)
    \/ \E a \in CartAddrs \ {BANK_REGISTER}, value \in CartBytes : CartStore(a, value)
    \/ \E a \in CartAddrs : CartRead(a)

(***************************************************************************)
(* A CPLD2_Video on its own: the raster counters (cpld/cpld2_video.cpp)    *)
(***************************************************************************)
PIXELS_PER_LINE == 857
LINES_PER_FRAME_240P == 262
LINES_PER_FRAME_480I == 525
HBLANK_START == 0
HBLANK_END == 137
VBLANK_LINES_240P == 22
VBLANK_LINES_480I == 22

\* CPLD2_Video::reset: the video mode is kept
CPLD2_reset(regs) ==
    [regs EXCEPT !.rasterLine = 0, !.rasterX = 0, !.inVBlank = TRUE, !.inHBlank = TRUE,
                 !.vblankIRQPending = FALSE, !.hblankIRQPending = FALSE]

\* mutant of getTotalLines: the count of vblank lines taken for the frame height
getTotalLines_VBlankLines(regs) ==
    IF regs.videoMode = "MODE_240P" THEN VBLANK_LINES_240P ELSE VBLANK_LINES_480I

getTotalLines(regs) ==
    IF regs.videoMode = "MODE_240P" THEN LINES_PER_FRAME_240P ELSE LINES_PER_FRAME_480I

updateBlankingFlags(regs) ==
    [regs EXCEPT
        !.inHBlank = (regs.rasterX >= HBLANK_START /\ regs.rasterX <= HBLANK_END),
        !.inVBlank = IF regs.videoMode = "MODE_240P"
                     THEN regs.rasterLine < VBLANK_LINES_240P
                     ELSE \/ regs.rasterLine < VBLANK_LINES_480I
                          \/ (regs.rasterLine >= 262 /\ regs.rasterLine < 262 + VBLANK_LINES_480I)]

\* mutant of CPLD2_tick: the frame wrap raises the IRQ whether or not one is pending
CPLD2_tick_NoGate(st) ==
    LET x == (st.regs.rasterX + 1) % 65536
        lineWrap == x >= PIXELS_PER_LINE
        line == IF lineWrap THEN (st.regs.rasterLine + 1) % 65536 ELSE st.regs.rasterLine
        frameWrap == lineWrap /\ line >= getTotalLines(st.regs)
    IN [regs |-> updateBlankingFlags(
                    [st.regs EXCEPT !.rasterX = IF lineWrap THEN 0 ELSE x,
                                    !.rasterLine = IF frameWrap THEN 0 ELSE line,
                                    !.vblankIRQPending = @ \/ frameWrap]),
        raised |-> st.raised + (IF frameWrap THEN 1 ELSE 0),
        called |-> st.called + (IF frameWrap /\ st.callback THEN 1 ELSE 0),
        callback |-> st.callback]

\* mutant of CPLD2_tick: a line of 858 pixels, as MasterClock::PIXELS_PER_SCANLINE has it
CPLD2_tick_858(st) ==
    LET x == (st.regs.rasterX + 1) % 65536
        lineWrap == x >= 858
        line == IF lineWrap THEN (st.regs.rasterLine + 1) % 65536 ELSE st.regs.rasterLine
        frameWrap == lineWrap /\ line >= getTotalLines(st.regs)
        raise == frameWrap /\ ~st.regs.vblankIRQPending
    IN [regs |-> updateBlankingFlags(
                    [st.regs EXCEPT !.rasterX = IF lineWrap THEN 0 ELSE x,
                                    !.rasterLine = IF frameWrap THEN 0 ELSE line,
                                    !.vblankIRQPending = @ \/ raise]),
        raised |-> st.raised + (IF raise THEN 1 ELSE 0),
        called |-> st.called + (IF raise /\ st.callback THEN 1 ELSE 0),
        callback |-> st.callback]

\* CPLD2_Video::tick on st = [regs, callback, raised, called]: raised counts the
\* times the vblank IRQ was made pending, called the invocations of vblankCallback
CPLD2_tick(st) ==
    LET x == (st.regs.rasterX + 1) % 65536
        lineWrap == x >= PIXELS_PER_LINE
        line == IF lineWrap THEN (st.regs.rasterLine + 1) % 65536 ELSE st.regs.rasterLine
        frameWrap == lineWrap /\ line >= getTotalLines(st.regs)
        raise == frameWrap /\ ~st.regs.vblankIRQPending
    IN [regs |-> updateBlankingFlags(
                    [st.regs EXCEPT !.rasterX = IF lineWrap THEN 0 ELSE x,
                                    !.rasterLine = IF frameWrap THEN 0 ELSE line,
                                    !.vblankIRQPending = @ \/ raise]),
        raised |-> st.raised + (IF raise THEN 1 ELSE 0),
        called |-> st.called + (IF raise /\ st.callback THEN 1 ELSE 0),
        callback |-> st.callback]

\* n calls of tick() in a row
RECURSIVE Ticks(_, _)
Ticks(st, n) ==
    IF n = 0 THEN st
    ELSE IF n = 1 THEN CPLD2_tick(st)
    ELSE LET half == Ticks(st, n \div 2)
         IN IF half.raised >= 0 THEN Ticks(half, n - n \div 2) ELSE half

\* ticks of one 240p frame; the tick counter stops MaxExtraTicks after it
FramePeriod == PIXELS_PER_LINE * LINES_PER_FRAME_240P

\* tick() is called once, or for one whole line from the start of a line
TickBursts(regs) == IF regs.rasterX = 0 THEN {1, PIXELS_PER_LINE} ELSE {1}

\* what happened since the last reset: calls of tick(), IRQs made pending,
\* callback invocations, and whether the mode was 240p all along
VideoEvent(ticks, raised, called, mode240) ==
    [ticks |-> ticks, raised |-> raised, called |-> called, mode240 |-> mode240]

VideoUnitInit ==
    /\ unitVideo = NewCPLD2
    /\ videoCallback = FALSE
    /\ videoLog = VideoEvent(0, 0, 0, TRUE)

\* CPLD2_Video::setVBlankCallback, called when the device is wired: before the
\* first tick after construction or reset
VideoSetVBlankCallback ==
    /\ videoLog.ticks = 0
    /\ videoCallback' = TRUE
    /\ UNCHANGED <<unitVideo, videoLog>>
    /\ UNCHANGED <<machineVars, mailboxUnitVars, busUnitVars, cartUnitVars, audioUnitVars, boardUnitVars>>

VideoReset ==
    /\ unitVideo' = CPLD2_reset(unitVideo)
    /\ videoLog' = VideoEvent(0, 0, 0, unitVideo.videoMode = "MODE_240P")
    /\ UNCHANGED videoCallback
    /\ UNCHANGED <<machineVars, mailboxUnitVars, busUnitVars, cartUnitVars, audioUnitVars, boardUnitVars>>

\* CPLD2_Video::storeByte to VIDEO_MODE ($400200) or IRQ_CLEAR ($40020A)
VideoStore(offset, value) ==
    /\ unitVideo' = CPLD2_storeByte(unitVideo, CPLD2_BASE + offset, value)
    /\ videoLog' = [videoLog EXCEPT !.mode240 = @ /\ unitVideo'.videoMode = "MODE_240P"]
    /\ UNCHANGED videoCallback
    /\ UNCHANGED <<machineVars, mailboxUnitVars, busUnitVars, cartUnitVars, audioUnitVars, boardUnitVars>>

VideoTick(n) ==
    /\ videoLog.ticks + n <= FramePeriod + MaxExtraTicks
    /\ LET st == Ticks([regs |-> unitVideo, callback |-> videoCallback,
                        raised |-> videoLog.raised, called |-> videoLog.called], n)
       IN /\ unitVideo' = st.regs
          /\ videoLog' = VideoEvent(videoLog.ticks + n, st.raised, st.called, videoLog.mode240)
    /\ UNCHANGED videoCallback
    /\ UNCHANGED <<machineVars, mailboxUnitVars, busUnitVars, cartUnitVars, audioUnitVars, boardUnitVars>>

VideoNext ==
    \/ VideoSetVBlankCallback
    \/ VideoReset
    \/ \E offset \in {0, 10}, value \in {0, 1} : VideoStore(offset, value)
    \/ \E n \in TickBursts(unitVideo) : VideoTick(n)

(***************************************************************************)
(* A CPLD2_Video on its own, over whole frames of both modes: the vblank   *)
(* IRQ and the blanking flags (cpld/cpld2_video.cpp)                       *)
(***************************************************************************)
\* mutant of allowGCpuVramAccess: VRAM is open during vertical blanking only
allowGCpuVramAccess_VBlankOnly(regs) == regs.inVBlank

\* CPLD2_Video::allowGCpuVramAccess
allowGCpuVramAccess(regs) == regs.inHBlank \/ regs.inVBlank

\* the lines on which tick() is followed pixel by pixel: the first line, the last
\* line before and the first after each vblank boundary is reached from them
PixelLines == {0, VBLANK_LINES_240P - 1, LINES_PER_FRAME_240P - 1,
               262 + VBLANK_LINES_480I - 1, LINES_PER_FRAME_480I - 2,
               LINES_PER_FRAME_480I - 1}

\* calls of tick() made in a row: on a pixel line up to the last pixel of hblank,
\* one more, up to the last pixel of the line, one more; elsewhere whole lines, up
\* to the next pixel line
RasterBursts(regs) ==
    IF regs.rasterLine \in PixelLines
    THEN CASE regs.rasterX = HBLANK_START -> {HBLANK_END}
           [] regs.rasterX = HBLANK_END + 1 -> {PIXELS_PER_LINE - 1 - (HBLANK_END + 1)}
           [] OTHER -> {1}
    ELSE CASE regs.rasterX # 0 -> {1}
           [] regs.rasterLine = 1 -> {PIXELS_PER_LINE * (VBLANK_LINES_240P - 2)}
           [] regs.rasterLine = VBLANK_LINES_240P ->
                 {PIXELS_PER_LINE * (LINES_PER_FRAME_240P - 1 - VBLANK_LINES_240P)}
           [] regs.rasterLine = 262 -> {PIXELS_PER_LINE * (VBLANK_LINES_480I - 1)}
           [] regs.rasterLine = 262 + VBLANK_LINES_480I ->
                 {PIXELS_PER_LINE * (LINES_PER_FRAME_480I - 2 - (262 + VBLANK_LINES_480I))}
           [] OTHER -> {PIXELS_PER_LINE}

\* the last operation: calls of tick() it made, invocations of vblankCallback it
\* made, and the invocations since the last IRQ clear, reset or construction
RasterEvent(ticks, called, sinceClear) ==
    [ticks |-> ticks, called |-> called, sinceClear |-> sinceClear]

RasterUnitInit ==
    /\ unitRaster = NewCPLD2
    /\ rasterCallback = FALSE
    /\ rasterLog = RasterEvent(0, 0, 0)

\* CPLD2_Video::setVBlankCallback, called when the device is wired
RasterSetVBlankCallback ==
    /\ unitRaster = NewCPLD2
    /\ rasterCallback' = TRUE
    /\ rasterLog' = RasterEvent(0, 0, rasterLog.sinceClear)
    /\ UNCHANGED unitRaster
    /\ UNCHANGED exceptRasterVars

RasterReset ==
    /\ unitRaster' = CPLD2_reset(unitRaster)
    /\ rasterLog' = RasterEvent(0, 0, 0)
    /\ UNCHANGED rasterCallback
    /\ UNCHANGED exceptRasterVars

\* CPLD2_Video::storeByte to VIDEO_MODE ($400200) or IRQ_CLEAR ($40020A)
RasterStore(offset, value) ==
    /\ unitRaster' = CPLD2_storeByte(unitRaster, CPLD2_BASE + offset, value)
    /\ rasterLog' = RasterEvent(0, 0, IF offset = 10 /\ value # 0
                                      THEN 0 ELSE rasterLog.sinceClear)
    /\ UNCHANGED rasterCallback
    /\ UNCHANGED exceptRasterVars

\* a long run of whole lines continues a run of ticks
RasterTick(n) ==
    /\ n > PIXELS_PER_LINE => rasterLog.ticks > 0
    /\ LET st == Ticks([regs |-> unitRaster, callback |-> rasterCallback,
                        raised |-> 0, called |-> 0], n)
       IN /\ unitRaster' = st.regs
          /\ rasterLog' = RasterEvent(n, st.called, rasterLog.sinceClear + st.called)
    /\ UNCHANGED rasterCallback
    /\ UNCHANGED exceptRasterVars

RasterNext ==
    \/ RasterSetVBlankCallback
    \/ RasterReset
    \/ \E offset \in {0, 10}, value \in {0, 1} : RasterStore(offset, value)
    \/ \E n \in RasterBursts(unitRaster) : RasterTick(n)

(***************************************************************************)
(* A CPLD1_Audio on its own: the eight sample FIFOs (cpld/cpld1_audio.cpp) *)
(***************************************************************************)
CPLD1_BASE == 4194560
FIFO_CAPACITY == 256

Channels == 0..7

Pow2(i) == 2 ^ i

\* value & (1 << i)
BitSet(value, i) == (value \div Pow2(i)) % 2 = 1

\* irqStatus |= (1 << i)
WithBit(value, i) == IF BitSet(value, i) THEN value ELSE value + Pow2(i)

\* irqStatus &= ~(1 << i)
WithoutBit(value, i) == IF BitSet(value, i) THEN value - Pow2(i) ELSE value

\* AudioFIFO::AudioFIFO and AudioFIFO::clear
EmptyFIFO == [samples |-> <<>>, irqPending |-> FALSE]

\* AudioFIFO::getLevel: static_cast<uint8_t>(samples.size())
getLevel(fifo) == Len(fifo.samples) % 256

\* AudioFIFO::isFull
isFull(fifo) == Len(fifo.samples) >= FIFO_CAPACITY

\* CPLD1_Audio::CPLD1_Audio and CPLD1_Audio::reset
NewCPLD1 ==
    [fifos |-> [ch \in Channels |-> EmptyFIFO], irqThreshold |-> 128, irqStatus |-> 0,
     enabled |-> TRUE]

\* CPLD1_Audio::readByte
CPLD1_readByte(dev, flatAddr) ==
    LET offset == flatAddr - CPLD1_BASE
    IN CASE offset >= 16 /\ offset <= 23 -> getLevel(dev.fifos[offset - 16])
         [] offset = 24 -> dev.irqStatus
         [] offset = 28 -> dev.irqThreshold
         [] OTHER -> 0

\* int16_t sample = static_cast<int16_t>(value) << 8
SampleOf(value) == ((value * 256 + 32768) % 65536) - 32768

\* mutant of ClearIRQs: the bits of irqStatus are cleared, irqPending is kept
RECURSIVE ClearIRQs_StatusOnly(_, _, _)
ClearIRQs_StatusOnly(dev, value, i) ==
    IF i >= 8 THEN dev
    ELSE ClearIRQs_StatusOnly(IF BitSet(value, i)
                              THEN [dev EXCEPT !.irqStatus = WithoutBit(@, i)]
                              ELSE dev,
                              value, i + 1)

\* IRQ_CLEAR: channels i = 0..7 in turn
RECURSIVE ClearIRQs(_, _, _)
ClearIRQs(dev, value, i) ==
    IF i >= 8 THEN dev
    ELSE ClearIRQs(IF BitSet(value, i)
                   THEN [dev EXCEPT !.fifos[i].irqPending = FALSE,
                                    !.irqStatus = WithoutBit(@, i)]
                   ELSE dev,
                   value, i + 1)

\* mutant of CPLD1_storeByte: a sample is pushed whether or not the FIFO is full
CPLD1_storeByte_NoFullCheck(dev, flatAddr, value) ==
    LET offset == flatAddr - CPLD1_BASE
    IN IF offset >= 0 /\ offset <= 14 /\ offset % 2 = 0
       THEN [dev EXCEPT !.fifos[offset \div 2].samples = Append(@, SampleOf(value))]
       ELSE CASE offset = 26 -> ClearIRQs(dev, value, 0)
              [] offset = 28 -> [dev EXCEPT !.irqThreshold = value]
              [] offset = 30 -> [dev EXCEPT !.enabled = (value % 2 = 1)]
              [] OTHER -> dev

\* CPLD1_Audio::storeByte
CPLD1_storeByte(dev, flatAddr, value) ==
    LET offset == flatAddr - CPLD1_BASE
    IN IF offset >= 0 /\ offset <= 14 /\ offset % 2 = 0
       THEN (IF ~isFull(dev.fifos[offset \div 2])
             THEN [dev EXCEPT !.fifos[offset \div 2].samples = Append(@, SampleOf(value))]
             ELSE dev)
       ELSE CASE offset = 26 -> ClearIRQs(dev, value, 0)
              [] offset = 28 -> [dev EXCEPT !.irqThreshold = value]
              [] offset = 30 -> [dev EXCEPT !.enabled = (value % 2 = 1)]
              [] OTHER -> dev

\* mutant of DrainChannel: the level is compared with the threshold before the pop
DrainChannel_LevelBeforePop(st, ch) ==
    LET fifo == st.dev.fifos[ch]
    IN IF fifo.samples = <<>> THEN st
       ELSE LET raise == getLevel(fifo) < st.dev.irqThreshold /\ ~fifo.irqPending
            IN [dev |-> [st.dev EXCEPT
                            !.fifos[ch].samples = Tail(@),
                            !.fifos[ch].irqPending = @ \/ raise,
                            !.irqStatus = IF raise THEN WithBit(@, ch) ELSE @],
                raised |-> IF raise THEN st.raised \cup {ch} ELSE st.raised]

\* the body of the loop of CPLD1_Audio::tick for one channel; st = [dev, raised],
\* raised being the channels whose IRQ bit this tick has set
DrainChannel(st, ch) ==
    LET fifo == st.dev.fifos[ch]
    IN IF fifo.samples = <<>> THEN st
       ELSE LET popped == [fifo EXCEPT !.samples = Tail(@)]
                raise == getLevel(popped) < st.dev.irqThreshold /\ ~fifo.irqPending
            IN [dev |-> [st.dev EXCEPT
                            !.fifos[ch].samples = Tail(@),
                            !.fifos[ch].irqPending = @ \/ raise,
                            !.irqStatus = IF raise THEN WithBit(@, ch) ELSE @],
                raised |-> IF raise THEN st.raised \cup {ch} ELSE st.raised]

RECURSIVE DrainFrom(_, _)
DrainFrom(st, ch) == IF ch >= 8 THEN st ELSE DrainFrom(DrainChannel(st, ch), ch + 1)

\* CPLD1_Audio::tick
CPLD1_tick(dev) ==
    IF ~dev.enabled THEN [dev |-> dev, raised |-> {}]
    ELSE DrainFrom([dev |-> dev, raised |-> {}], 0)

\* channels the producer feeds, the second one only up to MaxShortLevel samples
AudioChannels == {0, 7}

\* the producer alternates two sample bytes, 0x01 and 0xC8
NextValue(fifo) ==
    IF fifo.samples # <<>> /\ fifo.samples[Len(fifo.samples)] = SampleOf(1) THEN 200 ELSE 1

AudioThresholds == {1, 128}

AudioClears == {1, 128, 255}

\* CPLD1_Audio::updateIRQ: the invocations of irqCallback it makes
updateIRQ(dev, callback) == IF dev.irqStatus # 0 /\ callback THEN 1 ELSE 0

\* the last operation: its register offset and value, what it returned, the
\* channels whose IRQ bit it set and the invocations of irqCallback it made
AudioEvent(op, offset, value, ret, raised, called) ==
    [op |-> op, offset |-> offset, value |-> value, ret |-> ret, raised |-> raised,
     called |-> called]

AudioUnitInit ==
    /\ unitAudio = NewCPLD1
    /\ audioLog = AudioEvent("construct", 0, 0, 0, {}, 0)
    /\ audioCallback = FALSE

\* CPLD1_Audio::setIRQCallback
AudioSetIRQCallback ==
    /\ ~audioCallback
    /\ audioCallback' = TRUE
    /\ audioLog' = AudioEvent("setIRQCallback", 0, 0, 0, {}, 0)
    /\ UNCHANGED unitAudio
    /\ UNCHANGED <<machineVars, mailboxUnitVars, busUnitVars, cartUnitVars, videoUnitVars, boardUnitVars>>

AudioReset ==
    /\ unitAudio' = NewCPLD1
    /\ audioLog' = AudioEvent("reset", 0, 0, 0, {}, 0)
    /\ UNCHANGED audioCallback
    /\ UNCHANGED <<machineVars, mailboxUnitVars, busUnitVars, cartUnitVars, videoUnitVars, boardUnitVars>>

\* a store to a FIFO write register; ret tells whether the FIFO was full
AudioWriteFIFO(ch) ==
    /\ ch = 7 => Len(unitAudio.fifos[ch].samples) < MaxShortLevel
    /\ LET value == NextValue(unitAudio.fifos[ch])
       IN /\ unitAudio' = CPLD1_storeByte(unitAudio, CPLD1_BASE + 2 * ch, value)
          /\ audioLog' = AudioEvent("write", 2 * ch, value,
                                    IF isFull(unitAudio.fifos[ch]) THEN 1 ELSE 0, {}, 0)
    /\ UNCHANGED audioCallback
    /\ UNCHANGED <<machineVars, mailboxUnitVars, busUnitVars, cartUnitVars, videoUnitVars, boardUnitVars>>

\* a store to IRQ_CLEAR ($40011A), IRQ_THRESHOLD ($40011C) or CONFIG ($40011E)
AudioStore(offset, value) ==
    /\ unitAudio' = CPLD1_storeByte(unitAudio, CPLD1_BASE + offset, value)
    /\ audioLog' = AudioEvent("store", offset, value, 0, {},
                              IF offset \in {26, 28}
                              THEN updateIRQ(unitAudio', audioCallback) ELSE 0)
    /\ UNCHANGED audioCallback
    /\ UNCHANGED <<machineVars, mailboxUnitVars, busUnitVars, cartUnitVars, videoUnitVars, boardUnitVars>>

AudioRead(offset) ==
    /\ unitAudio' = unitAudio
    /\ audioLog' = AudioEvent("read", offset, 0,
                              CPLD1_readByte(unitAudio, CPLD1_BASE + offset), {}, 0)
    /\ UNCHANGED audioCallback
    /\ UNCHANGED <<machineVars, mailboxUnitVars, busUnitVars, cartUnitVars, videoUnitVars, boardUnitVars>>

AudioTick ==
    /\ LET st == CPLD1_tick(unitAudio)
       IN /\ unitAudio' = st.dev
          /\ audioLog' = AudioEvent("tick", 0, 0, 0, st.raised,
                                    IF unitAudio.enabled
                                    THEN updateIRQ(st.dev, audioCallback) ELSE 0)
    /\ UNCHANGED audioCallback
    /\ UNCHANGED <<machineVars, mailboxUnitVars, busUnitVars, cartUnitVars, videoUnitVars, boardUnitVars>>

AudioNext ==
    \/ AudioSetIRQCallback
    \/ AudioReset
    \/ \E ch \in AudioChannels : AudioWriteFIFO(ch)
    \/ \E value \in AudioClears : AudioStore(26, value)
    \/ \E value \in AudioThresholds : AudioStore(28, value)
    \/ \E value \in {0, 1} : AudioStore(30, value)
    \/ \E ch \in AudioChannels : AudioRead(16 + ch)
    \/ AudioTick

(***************************************************************************)
(* A CPLD3_Raster on its own (cpld/cpld3_raster.cpp, cpld3_raster.h)       *)
(***************************************************************************)
CPLD3_BASE == 4195072
TABLE_ROWS == 262

\* TableEntry::TableEntry
ZeroEntry == [scrollOffset |-> 0, paletteSelect |-> 0]

\* CPLD3_Raster::CPLD3_Raster, CPLD3_Raster::reset.  scanlineTable holds the rows
\* that differ from ZeroEntry; the int16_t scroll fields hold their 16-bit pattern
NewCPLD3 ==
    [tableMode |-> FALSE, scrollOffsetReg |-> 0, paletteSelectReg |-> 0,
     currentScrollOffset |-> 0, currentPaletteSelect |-> 0,
     scanlineTable |-> Empty, tableIndex |-> 0, tableAddr |-> 0, tableByteOffset |-> 0,
     irqScanline |-> 0, irqEnable |-> FALSE, irqPending |-> FALSE]

CPLD3_reset(dev) == NewCPLD3

\* (word & 0xFF00) | value
WithLowByte(word, value) == (word \div 256) * 256 + value

\* (word & 0x00FF) | (value << 8), kept to 16 bits
WithHighByte(word, value) == (word % 256) + ((value * 256) % 65536)

TableRow(dev, row) == Get(dev.scanlineTable, row, ZeroEntry)

\* case 0x14 of CPLD3_Raster::storeByte: TABLE_DATA
StoreTableData(dev, value) ==
    IF dev.tableAddr >= TABLE_ROWS THEN dev
    ELSE LET row == TableRow(dev, dev.tableAddr)
         IN CASE dev.tableByteOffset = 0 ->
                   [dev EXCEPT !.scanlineTable =
                                  Put(@, dev.tableAddr,
                                      [row EXCEPT !.scrollOffset = WithLowByte(@, value)],
                                      ZeroEntry),
                               !.tableByteOffset = 1]
              [] dev.tableByteOffset = 1 ->
                   [dev EXCEPT !.scanlineTable =
                                  Put(@, dev.tableAddr,
                                      [row EXCEPT !.scrollOffset = WithHighByte(@, value)],
                                      ZeroEntry),
                               !.tableByteOffset = 2]
              [] dev.tableByteOffset = 2 ->
                   [dev EXCEPT !.scanlineTable =
                                  Put(@, dev.tableAddr,
                                      [row EXCEPT !.paletteSelect = value], ZeroEntry),
                               !.tableByteOffset = 0,
                               !.tableAddr = (@ + 1) % 65536]
              [] OTHER -> dev

\* CPLD3_Raster::storeByte
CPLD3_storeByte(dev, flatAddr, value) ==
    LET offset == flatAddr - CPLD3_BASE
    IN CASE offset = 0 -> [dev EXCEPT !.scrollOffsetReg = WithLowByte(@, value)]
         [] offset = 1 -> [dev EXCEPT !.scrollOffsetReg = WithHighByte(@, value)]
         [] offset = 2 -> [dev EXCEPT !.paletteSelectReg = value]
         [] offset = 4 -> [dev EXCEPT !.irqScanline = WithLowByte(@, value)]
         [] offset = 5 -> [dev EXCEPT !.irqScanline = WithHighByte(@, value % 2)]
         [] offset = 6 -> [dev EXCEPT !.irqEnable = (value % 2 = 1)]
         [] offset = 8 -> IF value % 2 = 1 THEN [dev EXCEPT !.irqPending = FALSE] ELSE dev
         [] offset = 16 ->
               IF value % 2 = 1 THEN [dev EXCEPT !.tableMode = TRUE, !.tableIndex = 0]
               ELSE [dev EXCEPT !.tableMode = FALSE]
         [] offset = 18 -> [dev EXCEPT !.tableAddr = WithLowByte(@, value),
                                       !.tableByteOffset = 0]
         [] offset = 19 -> [dev EXCEPT !.tableAddr = WithHighByte(@, value % 2),
                                       !.tableByteOffset = 0]
         [] offset = 20 -> StoreTableData(dev, value)
         [] OTHER -> dev

\* mutant of updateEffects: the table index is advanced before the row is latched
updateEffects_AdvanceFirst(dev) ==
    IF dev.tableMode
    THEN LET next == IF dev.tableIndex + 1 >= TABLE_ROWS THEN 0 ELSE dev.tableIndex + 1
         IN [dev EXCEPT !.currentScrollOffset = TableRow(dev, next).scrollOffset,
                        !.currentPaletteSelect = TableRow(dev, next).paletteSelect,
                        !.tableIndex = next]
    ELSE [dev EXCEPT !.currentScrollOffset = dev.scrollOffsetReg,
                     !.currentPaletteSelect = dev.paletteSelectReg]

\* CPLD3_Raster::updateEffects
updateEffects(dev) ==
    IF dev.tableMode
    THEN LET latched ==
               IF dev.tableIndex < TABLE_ROWS
               THEN [dev EXCEPT
                       !.currentScrollOffset = TableRow(dev, dev.tableIndex).scrollOffset,
                       !.currentPaletteSelect = TableRow(dev, dev.tableIndex).paletteSelect]
               ELSE dev
             next == (dev.tableIndex + 1) % 65536
         IN [latched EXCEPT !.tableIndex = IF next >= TABLE_ROWS THEN 0 ELSE next]
    ELSE [dev EXCEPT !.currentScrollOffset = dev.scrollOffsetReg,
                     !.currentPaletteSelect = dev.paletteSelectReg]

\* mutant of checkIRQ: a pending IRQ does not hold back the next one
checkIRQ_IgnorePending(st, currentLine) ==
    IF st.dev.irqEnable /\ currentLine = st.dev.irqScanline
    THEN [st EXCEPT !.dev.irqPending = TRUE,
                    !.called = @ + (IF st.callback THEN 1 ELSE 0)]
    ELSE st

\* CPLD3_Raster::checkIRQ on st = [dev, callback, called]: called counts the
\* invocations of irqCallback
checkIRQ(st, currentLine) ==
    IF st.dev.irqEnable /\ currentLine = st.dev.irqScanline /\ ~st.dev.irqPending
    THEN [st EXCEPT !.dev.irqPending = TRUE,
                    !.called = @ + (IF st.callback THEN 1 ELSE 0)]
    ELSE st

\* CPLD3_Raster::onHSync
CPLD3_onHSync(st, currentLine) ==
    checkIRQ([st EXCEPT !.dev = updateEffects(st.dev)], currentLine)

\* onHSync called for n scanlines in a row, from currentLine on
RECURSIVE HSyncs(_, _, _)
HSyncs(st, currentLine, n) ==
    IF n = 0 THEN st
    ELSE IF n = 1 THEN CPLD3_onHSync(st, currentLine)
    ELSE LET half == HSyncs(st, currentLine, n \div 2)
         IN IF half.called >= 0
            THEN HSyncs(half, (currentLine + n \div 2) % TABLE_ROWS, n - n \div 2)
            ELSE half

\* the rows of the table at which onHSync is followed call by call
LatchRows == {0, 1, 2, TABLE_ROWS - 1}

\* calls of onHSync made in a row: one in register mode and where the row to be
\* latched is one of LatchRows, else up to the next of them
HSyncBursts(dev) ==
    IF ~dev.tableMode \/ dev.tableIndex \in LatchRows THEN {1}
    ELSE {CHOOSE n \in 1..TABLE_ROWS :
            /\ dev.tableIndex + n \in LatchRows
            /\ \A k \in 1..(n - 1) : dev.tableIndex + k \notin LatchRows}

\* the k-th byte stored to TABLE_DATA after construction or reset
TableByte(k) == IF k % 2 = 1 THEN 128 + k ELSE k

\* the last operation; run: the row the write pointer stood at when the current
\* run of TABLE_DATA stores began and the bytes stored since; written: TABLE_DATA
\* stores since construction or reset; hsyncs: calls of onHSync since table mode
\* was last switched on (0 in register mode)
Cpld3Event(op, offset, value, called, run, written, hsyncs) ==
    [op |-> op, offset |-> offset, value |-> value, called |-> called, run |-> run,
     written |-> written, hsyncs |-> hsyncs]

NoRun == [start |-> 0, bytes |-> <<>>]

Cpld3UnitInit ==
    /\ unitCpld3 = NewCPLD3
    /\ cpld3Callback = FALSE
    /\ cpld3Log = Cpld3Event("construct", 0, 0, 0, NoRun, 0, 0)

\* CPLD3_Raster::setIRQCallback, called when the device is wired
Cpld3SetIRQCallback ==
    /\ ~cpld3Callback
    /\ cpld3Callback' = TRUE
    /\ cpld3Log' = [cpld3Log EXCEPT !.op = "setIRQCallback", !.offset = 0, !.value = 0,
                                     !.called = 0]
    /\ UNCHANGED unitCpld3
    /\ UNCHANGED exceptCpld3Vars

Cpld3Reset ==
    /\ unitCpld3' = CPLD3_reset(unitCpld3)
    /\ cpld3Log' = Cpld3Event("reset", 0, 0, 0, NoRun, 0, 0)
    /\ UNCHANGED cpld3Callback
    /\ UNCHANGED exceptCpld3Vars

\* a store to a register other than TABLE_DATA
Cpld3Store(offset, value) ==
    /\ offset # 20
    /\ unitCpld3' = CPLD3_storeByte(unitCpld3, CPLD3_BASE + offset, value)
    /\ cpld3Log' = Cpld3Event("store", offset, value, 0,
                              IF offset \in {18, 19}
                              THEN [start |-> unitCpld3'.tableAddr, bytes |-> <<>>]
                              ELSE cpld3Log.run,
                              cpld3Log.written,
                              IF offset = 16 THEN 0 ELSE cpld3Log.hsyncs)
    /\ UNCHANGED cpld3Callback
    /\ UNCHANGED exceptCpld3Vars

\* a store to TABLE_DATA ($400314)
Cpld3StoreTableData ==
    /\ cpld3Log.written < MaxTableWrites
    /\ LET value == TableByte(cpld3Log.written + 1)
       IN /\ unitCpld3' = CPLD3_storeByte(unitCpld3, CPLD3_BASE + 20, value)
          /\ cpld3Log' = Cpld3Event("store", 20, value, 0,
                                    [cpld3Log.run EXCEPT !.bytes = Append(@, value)],
                                    cpld3Log.written + 1, cpld3Log.hsyncs)
    /\ UNCHANGED cpld3Callback
    /\ UNCHANGED exceptCpld3Vars

\* onHSync called n times, for currentLine and the scanlines after it
Cpld3HSync(currentLine, n) ==
    /\ cpld3Log.hsyncs + n <= TABLE_ROWS + MaxExtraHSyncs
    /\ LET st == HSyncs([dev |-> unitCpld3, callback |-> cpld3Callback, called |-> 0],
                        currentLine, n)
       IN /\ unitCpld3' = st.dev
          /\ cpld3Log' = Cpld3Event("hsync", currentLine, n, st.called, cpld3Log.run,
                                    cpld3Log.written,
                                    IF unitCpld3.tableMode THEN cpld3Log.hsyncs + n ELSE 0)
    /\ UNCHANGED cpld3Callback
    /\ UNCHANGED exceptCpld3Vars

\* the table load registers
Cpld3TableNext ==
    \/ Cpld3Reset
    \/ Cpld3Store(18, 4)
    \/ \E value \in {0, 1} : Cpld3Store(19, value)
    \/ Cpld3StoreTableData

\* the effect registers, the first rows of the table and the per-line latch
Cpld3LatchNext ==
    \/ Cpld3Reset
    \/ \E offset \in {0, 2} : Cpld3Store(offset, 3)
    \/ Cpld3Store(1, 128)
    \/ \E value \in {0, 1} : Cpld3Store(16, value)
    \/ Cpld3StoreTableData
    \/ \E n \in HSyncBursts(unitCpld3) : Cpld3HSync(unitCpld3.tableIndex, n)

\* the split-line IRQ
Cpld3IRQNext ==
    \/ Cpld3SetIRQCallback
    \/ Cpld3Reset
    \/ \E value \in {0, 5} : Cpld3Store(4, value)
    \/ \E value \in {0, 1} : Cpld3Store(5, value)
    \/ \E value \in {0, 1} : Cpld3Store(6, value)
    \/ \E value \in {0, 1, 2} : Cpld3Store(8, value)
    \/ \E currentLine \in {0, 5, TABLE_ROWS - 1} : Cpld3HSync(currentLine, 1)

(***************************************************************************)
(* A VideoRenderer with the CPLD2_Video and the graphics RAM that          *)
(* Emulator::initializeVideo gives it (video/video_renderer.cpp)           *)
(***************************************************************************)
WIDTH == 320
HEIGHT == 240
PALETTE_RAM == 81920
TILEMAP_BG0 == 86016
TILEMAP_BG1 == 94208
TILEMAP_FG0 == 102400
TILEMAP_FG1 == 110592
TILEMAP_HUD == 118784
TILE_DATA == 131072
FRAMEBUFFER == 0
SPRITE_OAM == 77824

\* the uint32_t (b3 << 24) | (b2 << 16) | (b1 << 8) | b0, byte by byte
Word32(b3, b2, b1, b0) == <<b3, b2, b1, b0>>

\* the pixels of the frame buffer that are followed, as indices line * WIDTH + x
FramebufferCells == {0, 1, WIDTH, HEIGHT * WIDTH - 1}

\* the lines and the columns of the followed pixels
TrackedLines == <<0, 1, HEIGHT - 1>>

TrackedX == {0, 1, WIDTH - 1}

\* CPLD2_Video::readByte
CPLD2_readByte(regs, flatAddr) ==
    LET offset == flatAddr - CPLD2_BASE
    IN CASE offset = 0 -> IF regs.videoMode = "MODE_480I" THEN 1 ELSE 0
         [] offset = 2 -> regs.rasterLine % 256
         [] offset = 3 -> (regs.rasterLine \div 256) % 256
         [] offset = 4 -> regs.rasterX % 256
         [] offset = 5 -> (regs.rasterX \div 256) % 256
         [] offset = 6 -> IF regs.inVBlank THEN 1 ELSE 0
         [] offset = 8 -> IF regs.inHBlank THEN 1 ELSE 0
         [] OTHER -> 0

\* CPLD2_Video::getRegister
getRegister(regs, reg) == CPLD2_readByte(regs, CPLD2_BASE + reg)

\* layerBuffers[i].color / .priority / .alpha at one column, as reset() fills them
ClearColumn == [color |-> 0, priority |-> 0, alpha |-> 16]

\* paletteRGBA[index]: the cache is held as the grayscale ramp of reset(), or as
\* its entries that are not the conversion of the RGB565 word 0
PaletteColor(palette, index) ==
    IF palette.grayscale THEN Word32(255, index, index, index)
    ELSE Get(palette.entries, index, Word32(255, 0, 0, 0))

\* layerBuffers[layer] at column x: the buffers are held as their columns that
\* are not clear
LayerColumn(r, layer, x) == Get(r.layerBuffers, <<layer, x>>, ClearColumn)

\* a Sprite whose fields are all zero
ZeroSprite == [x |-> 0, y |-> 0, tile |-> 0, attributes |-> 0, flags |-> 0, priority |-> 0]

\* spriteCache[i]: the cache is held as its entries that are not ZeroSprite
SpriteAt(r, i) == Get(r.spriteCache, i, ZeroSprite)

\* VideoRenderer::reset: black frame buffer, grayscale palette, clear layer buffers.
\* spriteCache is read only after updateSpriteCache has filled it
VideoRenderer_reset ==
    [framebuffer |-> [c \in FramebufferCells |-> Word32(255, 0, 0, 0)],
     paletteDirty |-> TRUE,
     spriteCacheDirty |-> TRUE,
     paletteRGBA |-> [grayscale |-> TRUE, entries |-> Empty],
     spriteCache |-> Empty,
     layerBuffers |-> Empty]

\* VideoRenderer::readVRAM
readVRAM(vram, flatAddr) ==
    IF flatAddr >= 524288 THEN 0 ELSE RAM_readByte(vram, flatAddr)

\* VideoRenderer::readVRAM16
readVRAM16(vram, addr) == readVRAM(vram, addr) + 256 * readVRAM(vram, addr + 1)

\* mutant of rgb565_to_rgba8888: red in bits 16..23, blue in the low byte
rgb565_to_rgba8888_ARGB(rgb565) ==
    LET r5 == (rgb565 \div 2048) % 32
        g6 == (rgb565 \div 32) % 64
        b5 == rgb565 % 32
    IN Word32(255, (r5 * 8) + (r5 \div 4), (g6 * 4) + (g6 \div 16), (b5 * 8) + (b5 \div 4))

\* VideoRenderer::rgb565_to_rgba8888: 0xFF000000 | (b << 16) | (g << 8) | r
rgb565_to_rgba8888(rgb565) ==
    LET r5 == (rgb565 \div 2048) % 32
        g6 == (rgb565 \div 32) % 64
        b5 == rgb565 % 32
    IN Word32(255, (b5 * 8) + (b5 \div 4), (g6 * 4) + (g6 \div 16), (r5 * 8) + (r5 \div 4))

\* VideoRenderer::updatePaletteCache
updatePaletteCache(r, vram) ==
    [r EXCEPT !.paletteRGBA =
        [grayscale |-> FALSE,
         entries |-> [i \in {j \in 0..255 : readVRAM16(vram, PALETTE_RAM + j * 2) # 0} |->
                         rgb565_to_rgba8888(readVRAM16(vram, PALETTE_RAM + i * 2))]]]

\* the Sprite that updateSpriteCache reads from the OAM entry i
OamEntry(vram, i) ==
    LET oamAddr == SPRITE_OAM + i * 8
    IN [x |-> readVRAM16(vram, oamAddr), y |-> readVRAM16(vram, oamAddr + 2),
        tile |-> readVRAM(vram, oamAddr + 4), attributes |-> readVRAM(vram, oamAddr + 5),
        flags |-> readVRAM(vram, oamAddr + 6), priority |-> readVRAM(vram, oamAddr + 7)]

\* VideoRenderer::updateSpriteCache
updateSpriteCache(r, vram) ==
    [r EXCEPT !.spriteCache =
        [i \in {j \in 0..511 : OamEntry(vram, j) # ZeroSprite} |-> OamEntry(vram, i)]]

\* VideoRenderer::renderFramebufferMode
renderFramebufferMode(r, vram, line) ==
    [r EXCEPT !.framebuffer =
        [c \in FramebufferCells |->
            IF c \div WIDTH = line
            THEN PaletteColor(r.paletteRGBA,
                              readVRAM(vram, FRAMEBUFFER + line * WIDTH + (c % WIDTH)))
            ELSE r.framebuffer[c]]]

\* tilemapBases[layerIndex]
tilemapBases(layerIndex) ==
    CASE layerIndex = 0 -> TILEMAP_BG0
      [] layerIndex = 1 -> TILEMAP_BG1
      [] layerIndex = 2 -> TILEMAP_FG0
      [] layerIndex = 3 -> TILEMAP_FG1
      [] OTHER -> TILEMAP_HUD

\* the body of the screenX loop of VideoRenderer::renderTileLayer: colorIndex
TileColorIndex(regs, vram, line, layerIndex, screenX) ==
    LET baseReg == 16 + layerIndex * 8
        scrollX == getRegister(regs, baseReg) + 256 * getRegister(regs, baseReg + 1)
        scrollY == getRegister(regs, baseReg + 2) + 256 * getRegister(regs, baseReg + 3)
        control == getRegister(regs, baseReg + 4)
        bpp == control % 4
        tileSize == (control \div 4) % 2
        mapSize == (control \div 8) % 2
        edge == IF tileSize = 1 THEN 16 ELSE 8
        worldY == (line + scrollY) % 512
        tileY == worldY \div edge
        pixelY == worldY % edge
        mapWidth == IF mapSize = 1 THEN 64 ELSE 32
        worldX == (screenX + scrollX) % 512
        tileX == worldX \div edge
        pixelX == worldX % edge
        tileEntry == readVRAM16(vram, tilemapBases(layerIndex) + (tileY * mapWidth + tileX) * 2)
        tileNum == tileEntry % 1024
        hflip == (tileEntry \div 1024) % 2 = 1
        vflip == (tileEntry \div 2048) % 2 = 1
        tilePalBank == (tileEntry \div 4096) % 16
        px == IF hflip THEN (edge - 1) - pixelX ELSE pixelX
        py == IF vflip THEN (edge - 1) - pixelY ELSE pixelY
        bytesPerTile == IF bpp = 1 THEN (edge * edge) \div 2
                        ELSE IF bpp = 0 THEN (edge * edge) \div 4 ELSE edge * edge
        pixelAddr == TILE_DATA + tileNum * bytesPerTile + py * edge
    IN CASE bpp = 0 -> LET byte == readVRAM(vram, pixelAddr + px \div 4)
                       IN ((byte \div (4 ^ (3 - (px % 4)))) % 4) + tilePalBank * 16
         [] bpp = 1 -> LET byte == readVRAM(vram, pixelAddr + px \div 2)
                       IN (IF px % 2 = 1 THEN byte % 16 ELSE byte \div 16) + tilePalBank * 16
         [] bpp = 2 -> readVRAM(vram, pixelAddr + px)
         [] OTHER -> 0

\* VideoRenderer::renderTileLayer: a pixel of colour 0 leaves the buffer as it was
renderTileLayer(r, regs, vram, line, layerIndex) ==
    LET Drawn(x) == TileColorIndex(regs, vram, line, layerIndex, x) # 0
        drawn == {<<layerIndex, x>> : x \in {y \in TrackedX : Drawn(y)}}
    IN [r EXCEPT !.layerBuffers =
           [k \in (DOMAIN r.layerBuffers) \cup drawn |->
               IF k \in drawn
               THEN [color |-> TileColorIndex(regs, vram, line, layerIndex, k[2]),
                     priority |-> getRegister(regs, 16 + layerIndex * 8 + 5),
                     alpha |-> 16]
               ELSE r.layerBuffers[k]]]

\* the tilemap passes of renderScanline, layers layerIndex..4, each under its
\* bit of layerEnable
RECURSIVE RenderTileLayers(_, _, _, _, _, _)
RenderTileLayers(r, regs, vram, line, layerEnable, layerIndex) ==
    IF layerIndex > 4 THEN r
    ELSE RenderTileLayers(IF BitSet(layerEnable, layerIndex)
                          THEN renderTileLayer(r, regs, vram, line, layerIndex) ELSE r,
                          regs, vram, line, layerEnable, layerIndex + 1)

\* Sprite::enabled, hflip, vflip, size, palBank, alpha
Sprite_enabled(spr) == spr.flags % 2 = 1

Sprite_hflip(spr) == (spr.flags \div 4) % 2 = 1

Sprite_vflip(spr) == (spr.flags \div 8) % 2 = 1

Sprite_size(spr) == (spr.flags \div 16) % 4

Sprite_palBank(spr) == (spr.attributes \div 16) % 16

Sprite_alpha(spr) == spr.attributes % 16

\* spriteSizes[spr.size()]
spriteSizes(size) == 8 * (2 ^ size)

\* line < spr.y || line >= spr.y + spriteHeight does not hold
SpriteOnLine(spr, line) ==
    ~(line < spr.y \/ line >= spr.y + spriteSizes(Sprite_size(spr)))

\* the body of the sx loop of renderSpritesOnLine for the sx that gives screenX:
\* colorIndex, or 0 where the sprite has no pixel or a transparent one
SpriteColorIndex(spr, vram, line, screenX) ==
    LET edge == spriteSizes(Sprite_size(spr))
        sx == screenX - spr.x
        down == line - spr.y
        spriteY == IF Sprite_vflip(spr) THEN edge - 1 - down ELSE down
        spriteX == IF Sprite_hflip(spr) THEN edge - 1 - sx ELSE sx
        tileAddr == TILE_DATA + spr.tile * 64
        byte == readVRAM(vram, tileAddr + (spriteY % 8) * 8 + (spriteX % 8))
    IN IF sx < 0 \/ sx >= edge THEN 0
       ELSE IF byte % 16 = 0 THEN 0
       ELSE (byte % 16) + Sprite_palBank(spr) * 16

\* the sprites that the loop of renderSpritesOnLine draws on a line: the enabled
\* ones that cross it, from index 511 down, until 128 were counted
SpritesProcessed(r, line) ==
    LET crossing == {i \in DOMAIN r.spriteCache :
                        Sprite_enabled(SpriteAt(r, i)) /\ SpriteOnLine(SpriteAt(r, i), line)}
    IN {i \in crossing : Cardinality({j \in crossing : j > i}) < 128}

\* layerBuffers[5] at column x after the sprites of todo, taken from the highest
\* index down: a sprite pixel is written when its priority is not below the one
\* in the buffer
RECURSIVE DrawSprites(_, _, _, _, _, _)
DrawSprites(r, vram, line, x, todo, buf) ==
    IF todo = {} THEN buf
    ELSE LET i == CHOOSE k \in todo : \A j \in todo : j <= k
             spr == SpriteAt(r, i)
             colorIndex == SpriteColorIndex(spr, vram, line, x)
         IN DrawSprites(r, vram, line, x, todo \ {i},
                        IF colorIndex # 0 /\ spr.priority >= buf.priority
                        THEN [color |-> colorIndex, priority |-> spr.priority,
                              alpha |-> Sprite_alpha(spr)]
                        ELSE buf)

\* VideoRenderer::renderSpritesOnLine
renderSpritesOnLine(r, vram, line) ==
    LET Drawn(x) == DrawSprites(r, vram, line, x, SpritesProcessed(r, line),
                                LayerColumn(r, 5, x))
        drawn == {<<5, x>> : x \in {y \in TrackedX : Drawn(y) # LayerColumn(r, 5, y)}}
    IN [r EXCEPT !.layerBuffers =
           [k \in (DOMAIN r.layerBuffers) \cup drawn |->
               IF k \in drawn THEN Drawn(k[2]) ELSE r.layerBuffers[k]]]

\* VideoRenderer::blendAlpha: each of the three colour bytes is
\* (fg * alpha + bg * (16 - alpha)) / 16, the top byte 0xFF
blendAlpha(fg, bg, alpha) ==
    Word32(255, (fg[2] * alpha + bg[2] * (16 - alpha)) \div 16,
           (fg[3] * alpha + bg[3] * (16 - alpha)) \div 16,
           (fg[4] * alpha + bg[4] * (16 - alpha)) \div 16)

\* the layer loop of compositeBuffers at one column: the colour on top after the
\* layers layer..5 (a blended pixel keeps the foreground colour)
RECURSIVE TopColor(_, _, _, _)
TopColor(column, layer, topColor, topPriority) ==
    IF layer > 5 THEN topColor
    ELSE LET buf == column[layer]
         IN IF buf.color # 0 /\ buf.priority >= topPriority /\ buf.alpha > 0
            THEN TopColor(column, layer + 1, buf.color, buf.priority)
            ELSE TopColor(column, layer + 1, topColor, topPriority)

\* the colour that compositeBuffers writes to the frame buffer at column x:
\* paletteRGBA[finalBuffer.color[x]]
CompositeColor(r, x) ==
    PaletteColor(r.paletteRGBA,
                 TopColor([layer \in 0..5 |-> LayerColumn(r, layer, x)], 0, 0, 0))

\* VideoRenderer::compositeBuffers
compositeBuffers(r, line) ==
    [r EXCEPT !.framebuffer =
        [c \in FramebufferCells |->
            IF c \div WIDTH = line THEN CompositeColor(r, c % WIDTH)
            ELSE r.framebuffer[c]]]

\* VideoRenderer::applyBrightness: the channels are uint8_t again after the division
applyBrightness(color, brightness) ==
    Word32(color[1], ((color[2] * brightness) \div 31) % 256,
           ((color[3] * brightness) \div 31) % 256, ((color[4] * brightness) \div 31) % 256)

\* a register byte as int8_t
AsInt8(value) == IF value >= 128 THEN value - 256 ELSE value

\* std::clamp(v, 0, 255)
Clamp255(v) == IF v < 0 THEN 0 ELSE IF v > 255 THEN 255 ELSE v

\* VideoRenderer::applyTint: the blue channel is computed from the tinted green
applyTint(color, tintR, tintG, tintB) ==
    LET g == Clamp255(color[3] + tintG)
    IN Word32(color[1], Clamp255(color[2] + tintR), g, Clamp255(g + tintB))

\* VideoRenderer::applyEffects
applyEffects(r, regs, line) ==
    LET brightness == getRegister(regs, 8)
        tintR == AsInt8(getRegister(regs, 9))
        tintG == AsInt8(getRegister(regs, 10))
        tintB == AsInt8(getRegister(regs, 11))
        Bright(color) == IF brightness # 31 THEN applyBrightness(color, brightness) ELSE color
        Tint(color) == IF tintR # 0 \/ tintG # 0 \/ tintB # 0
                       THEN applyTint(color, tintR, tintG, tintB) ELSE color
    IN [r EXCEPT !.framebuffer =
           [c \in FramebufferCells |->
               IF c \div WIDTH = line THEN Tint(Bright(r.framebuffer[c]))
               ELSE r.framebuffer[c]]]

\* the passes of renderScanline that fill the layer buffers, for the bytes
\* videoMode and layerEnable read from the registers 0x00 and 0x01: the sprite
\* cache refresh, the enabled tilemap layers, the sprites in mode 1 under bit 5
LayerPasses(r, regs, vram, line, videoMode, layerEnable) ==
    LET cached == IF r.spriteCacheDirty
                  THEN [updateSpriteCache(r, vram) EXCEPT !.spriteCacheDirty = FALSE]
                  ELSE r
        tiled == RenderTileLayers(cached, regs, vram, line, layerEnable, 0)
    IN IF videoMode % 4 = 1 /\ BitSet(layerEnable, 5)
       THEN renderSpritesOnLine(tiled, vram, line)
       ELSE tiled

\* renderScanline after the two register reads, with cpld2 and vram set; the
\* call of clearBuffers() at its start is commented out in the source
ScanlineWith(r, regs, vram, line, videoMode, layerEnable) ==
    LET cached == IF r.paletteDirty
                  THEN [updatePaletteCache(r, vram) EXCEPT !.paletteDirty = FALSE]
                  ELSE r
    IN IF videoMode % 4 = 0
       THEN renderFramebufferMode(cached, vram, line)
       ELSE applyEffects(
                compositeBuffers(LayerPasses(cached, regs, vram, line, videoMode,
                                             layerEnable),
                                 line),
                regs, line)

\* VideoRenderer::renderScanline
renderScanline(r, regs, vram, line) ==
    ScanlineWith(r, regs, vram, line, getRegister(regs, 0), getRegister(regs, 1))

\* the lines of a frame that can change the followed state: a line without a
\* followed pixel changes it only through the layer buffers of a tilemap pass
ScanLines(regs) ==
    IF getRegister(regs, 0) % 4 # 0 /\ getRegister(regs, 1) % 32 # 0
    THEN [i \in 1..HEIGHT |-> i - 1]
    ELSE TrackedLines

\* renderScanline for the lines of a sequence in turn, one half after the other
RECURSIVE RenderLines(_, _, _, _)
RenderLines(r, regs, vram, lines) ==
    IF lines = <<>> THEN r
    ELSE IF Len(lines) = 1 THEN renderScanline(r, regs, vram, lines[1])
    ELSE LET n == Len(lines) \div 2
             half == RenderLines(r, regs, vram, SubSeq(lines, 1, n))
         IN IF half.paletteDirty \in BOOLEAN
            THEN RenderLines(half, regs, vram, SubSeq(lines, n + 1, Len(lines)))
            ELSE half

\* VideoRenderer::renderFrame
VideoRenderer_renderFrame(r, regs, vram) == RenderLines(r, regs, vram, ScanLines(regs))

\* the last operation; the stores of the tilemap set-up issued so far; whether
\* the palette RAM was stored to after the palette cache was last refreshed
RendererEvent(op, issued, stale) == [op |-> op, issued |-> issued, stale |-> stale]

\* stores to VRAM: frame buffer bytes of pixel 0, tilemap entry (0,0) of BG0, the
\* first byte of tile 1 at 64 bytes a tile
VramStores ==
    {<<FRAMEBUFFER, 1>>, <<FRAMEBUFFER, 2>>, <<TILEMAP_BG0, 1>>, <<TILE_DATA + 64, 2>>}

\* palette entries loaded: entry 1 pure red, entry 2 pure green
PaletteLoads == {<<1, 63488>>, <<2, 2016>>}

\* stores to CPLD2 registers: VIDEO_MODE, the layer enable at $400201 and the
\* control byte of layer 0 at $400214 (bpp index 2)
RegisterStores == {<<0, 0>>, <<0, 1>>, <<1, 1>>, <<20, 2>>}

RendererUnitInit ==
    /\ unitRenderer = [renderer |-> VideoRenderer_reset, cpld2 |-> NewCPLD2,
                       vram |-> NewRAM(0, GRAPHICS_RAM_SIZE)]
    /\ rendererLog = RendererEvent("construct", {}, FALSE)

RendererReset ==
    /\ unitRenderer' = [unitRenderer EXCEPT !.renderer = VideoRenderer_reset]
    /\ rendererLog' = RendererEvent("reset", rendererLog.issued, FALSE)
    /\ UNCHANGED exceptRendererVars

\* CPLD2_Video::setRegister
RendererSetRegister(reg, value) ==
    /\ unitRenderer' = [unitRenderer EXCEPT
                            !.cpld2 = CPLD2_storeByte(@, CPLD2_BASE + reg, value)]
    /\ rendererLog' = RendererEvent("setRegister",
                                    rendererLog.issued \cup (IF reg = 0 THEN {} ELSE {reg}),
                                    rendererLog.stale)
    /\ UNCHANGED exceptRendererVars

\* RAM::storeByte on the graphics RAM
RendererStoreVRAM(addr, value) ==
    /\ unitRenderer' = [unitRenderer EXCEPT !.vram = RAM_storeByte(@, addr, value)]
    /\ rendererLog' = RendererEvent("storeVRAM",
                                    rendererLog.issued \cup
                                        (IF addr >= TILE_DATA THEN {addr} ELSE {}),
                                    rendererLog.stale)
    /\ UNCHANGED exceptRendererVars

\* the two RAM::storeByte calls that load one RGB565 palette entry
RendererLoadPalette(index, rgb565) ==
    /\ unitRenderer' = [unitRenderer EXCEPT
                            !.vram = RAM_storeByte(
                                         RAM_storeByte(@, PALETTE_RAM + index * 2, rgb565 % 256),
                                         PALETTE_RAM + index * 2 + 1, rgb565 \div 256)]
    /\ rendererLog' = RendererEvent("loadPalette", rendererLog.issued,
                                    rendererLog.stale \/ ~unitRenderer.renderer.paletteDirty)
    /\ UNCHANGED exceptRendererVars

\* CPLD2_Video::tick from the start of a frame to the first pixel after HBLANK
RendererTick ==
    /\ unitRenderer.cpld2.rasterX = 0
    /\ unitRenderer.cpld2.rasterLine = 0
    /\ unitRenderer' = [unitRenderer EXCEPT
                            !.cpld2 = Ticks([regs |-> @, callback |-> FALSE,
                                             raised |-> 0, called |-> 0],
                                            HBLANK_END + 1).regs]
    /\ rendererLog' = [rendererLog EXCEPT !.op = "tick"]
    /\ UNCHANGED exceptRendererVars

\* CPLD2_Video::reset
RendererResetCPLD2 ==
    /\ unitRenderer' = [unitRenderer EXCEPT !.cpld2 = CPLD2_reset(@)]
    /\ rendererLog' = [rendererLog EXCEPT !.op = "resetCPLD2"]
    /\ UNCHANGED exceptRendererVars

RendererRenderFrame ==
    /\ unitRenderer' = [unitRenderer EXCEPT
                            !.renderer = VideoRenderer_renderFrame(@, unitRenderer.cpld2,
                                                                   unitRenderer.vram)]
    /\ rendererLog' = [rendererLog EXCEPT !.op = "renderFrame"]
    /\ UNCHANGED exceptRendererVars

\* the OAM entries stored: sprites 0 and 1 at (0, 8) with priority 1 and alpha 8,
\* sprite 1 in palette bank 1; sprite 2 at (0, 0), flipped vertically, in palette
\* bank 2 with priority 2 and alpha 15.  All are enabled, 8 pixels wide and show
\* tile 1.
OamSprites ==
    (0 :> [x |-> 0, y |-> 8, tile |-> 1, attributes |-> 8, flags |-> 1, priority |-> 1])
    @@ (1 :> [x |-> 0, y |-> 8, tile |-> 1, attributes |-> 24, flags |-> 1, priority |-> 1])
    @@ (2 :> [x |-> 0, y |-> 0, tile |-> 1, attributes |-> 47, flags |-> 9, priority |-> 2])

\* the bytes of an OAM entry in the order of their addresses
OamBytes(spr) ==
    <<spr.x % 256, spr.x \div 256, spr.y % 256, spr.y \div 256, spr.tile, spr.attributes,
      spr.flags, spr.priority>>

\* the eight RAM::storeByte calls that write the OAM entry of sprite i
RECURSIVE StoreBytes(_, _, _, _)
StoreBytes(vram, addr, bytes, k) ==
    IF k > Len(bytes) THEN vram
    ELSE StoreBytes(RAM_storeByte(vram, addr + k - 1, bytes[k]), addr, bytes, k + 1)

LayersStoreSprite(i) ==
    /\ unitRenderer' = [unitRenderer EXCEPT
                            !.vram = StoreBytes(@, SPRITE_OAM + i * 8,
                                                OamBytes(OamSprites[i]), 1)]
    /\ rendererLog' = RendererEvent("storeSprite", rendererLog.issued, rendererLog.stale)
    /\ UNCHANGED exceptRendererVars

\* a store to the tilemap of BG0: the high byte of the entry of tile (0, 0), which
\* puts the tile in palette bank 1.  Tile data lies at TILE_DATA and above, past
\* the end of the Graphics RAM, so that every tile byte is read as 0xFF.
LayerStores == {<<TILEMAP_BG0 + 1, 16>>}

\* the lines rendered with the layer-enable bytes read for them: BG0 alone on
\* lines 0 and 1, the sprites alone on lines 7, 8 and 16
LayerLines == {<<0, 1>>, <<1, 1>>, <<7, 32>>, <<8, 32>>, <<16, 32>>}

\* renderScanline(line) in standard mode, the byte read from register 0x01
\* being layerEnable.  The log keeps the colours that compositeBuffers wrote at
\* the followed columns, and whether the layer buffers were clear there before.
LayersScanline(line, layerEnable) ==
    /\ LET r == unitRenderer.renderer
           regs == unitRenderer.cpld2
           cached == IF r.paletteDirty
                     THEN [updatePaletteCache(r, unitRenderer.vram)
                              EXCEPT !.paletteDirty = FALSE]
                     ELSE r
           passed == LayerPasses(cached, regs, unitRenderer.vram, line, 1, layerEnable)
       IN /\ unitRenderer' = [unitRenderer EXCEPT
                                  !.renderer = ScanlineWith(r, regs, unitRenderer.vram,
                                                            line, 1, layerEnable)]
          /\ rendererLog' =
                [op |-> "scanline", issued |-> rendererLog.issued,
                 stale |-> rendererLog.stale, line |-> line, layerEnable |-> layerEnable,
                 composited |-> [x \in TrackedX |-> CompositeColor(passed, x)],
                 clearBefore |-> [x \in TrackedX |->
                                     \A layer \in 0..5 : LayerColumn(r, layer, x) = ClearColumn]]
    /\ UNCHANGED exceptRendererVars

\* the layer passes of renderScanline, line by line
LayersNext ==
    \/ RendererReset
    \/ RendererLoadPalette(15, 63488)
    \/ \E s \in LayerStores : RendererStoreVRAM(s[1], s[2])
    \/ \E i \in DOMAIN OamSprites : LayersStoreSprite(i)
    \/ \E l \in LayerLines : LayersScanline(l[1], l[2])

RendererNext ==
    \/ RendererReset
    \/ \E s \in RegisterStores : RendererSetRegister(s[1], s[2])
    \/ \E s \in VramStores : RendererStoreVRAM(s[1], s[2])
    \/ \E p \in PaletteLoads : RendererLoadPalette(p[1], p[2])
    \/ RendererTick
    \/ RendererResetCPLD2
    \/ RendererRenderFrame

(***************************************************************************)
(* A MasterClock on its own: the cycle counters and the raster position    *)
(* derived from them (timing/master_clock.cpp, master_clock.h)             *)
(***************************************************************************)
SCANLINES_PER_FRAME == 240
TOTAL_SCANLINES == 262
PIXELS_PER_SCANLINE == 858
AUDIO_SAMPLE_RATE == 32000

\* MasterClock::MasterClock and MasterClock::reset, the fields that the add*Cycles
\* calls read and write
NewTimingClock ==
    [mainCPUCycles |-> 0, graphicsCPUCycles |-> 0, soundCPUCycles |-> 0,
     masterCycles |-> 0, currentScanline |-> 0, currentPixel |-> 0,
     audioSampleCounter |-> 0]

\* MasterClock::updateVideoTiming on st = [clk, callback, vblanks]: vblanks counts
\* the invocations of onVBlank
updateVideoTiming(st) ==
    LET cyclesThisFrame == st.clk.graphicsCPUCycles % (GRAPHICS_CPU_FREQ \div FRAME_RATE)
        totalPixels == cyclesThisFrame
        oldScanline == st.clk.currentScanline
        newScanline == totalPixels \div PIXELS_PER_SCANLINE
    IN [st EXCEPT !.clk.currentScanline = newScanline,
                  !.clk.currentPixel = totalPixels % PIXELS_PER_SCANLINE,
                  !.vblanks = IF oldScanline < SCANLINES_PER_FRAME
                                 /\ newScanline >= SCANLINES_PER_FRAME /\ st.callback
                              THEN @ + 1 ELSE @]

\* (masterCycles * AUDIO_SAMPLE_RATE) / GRAPHICS_CPU_FREQ, the fraction reduced by
\* 4000 so that the product stays small
expectedSamples(clk) ==
    (clk.masterCycles * (AUDIO_SAMPLE_RATE \div 4000)) \div (GRAPHICS_CPU_FREQ \div 4000)

\* MasterClock::updateAudioTiming: the counter is run up to the expected samples
updateAudioTiming(st) ==
    [st EXCEPT !.clk.audioSampleCounter =
                   IF @ < expectedSamples(st.clk) THEN expectedSamples(st.clk) ELSE @]

\* MasterClock::addMainCPUCycles
addMainCPUCycles(st, cycles) ==
    updateAudioTiming(updateVideoTiming(
        [st EXCEPT !.clk.mainCPUCycles = @ + cycles,
                   !.clk.masterCycles = st.clk.graphicsCPUCycles]))

\* MasterClock::addGraphicsCPUCycles
addGraphicsCPUCycles(st, cycles) ==
    updateAudioTiming(updateVideoTiming(
        [st EXCEPT !.clk.graphicsCPUCycles = @ + cycles,
                   !.clk.masterCycles = st.clk.graphicsCPUCycles + cycles]))

\* MasterClock::addSoundCPUCycles
addSoundCPUCycles(st, cycles) ==
    updateAudioTiming([st EXCEPT !.clk.soundCPUCycles = @ + cycles])

\* the last operation and its argument; the invocations of onVBlank it made;
\* those made since construction or reset; the value of graphicsCPUCycles at
\* which onVBlank was set (-1 while it is not); calls made so far
ClockEvent(op, cycles, called, vblanks, armedAt, calls) ==
    [op |-> op, cycles |-> cycles, called |-> called, vblanks |-> vblanks,
     armedAt |-> armedAt, calls |-> calls]

\* cycle counts handed to the add*Cycles calls: one cycle, a scanline less one
\* cycle, a scanline, the 240 visible scanlines, 262 scanlines, a whole frame
CycleCounts ==
    {1, PIXELS_PER_SCANLINE - 1, PIXELS_PER_SCANLINE,
     SCANLINES_PER_FRAME * PIXELS_PER_SCANLINE, TOTAL_SCANLINES * PIXELS_PER_SCANLINE,
     GRAPHICS_CPU_FREQ \div FRAME_RATE}

ClockUnitInit ==
    /\ unitClock = NewTimingClock
    /\ clockCallback = FALSE
    /\ clockLog = ClockEvent("construct", 0, 0, 0, -1, 0)

\* MasterClock::setVBlankCallback
ClockSetVBlankCallback ==
    /\ ~clockCallback
    /\ clockCallback' = TRUE
    /\ clockLog' = [clockLog EXCEPT !.op = "setVBlankCallback", !.cycles = 0, !.called = 0,
                                     !.armedAt = unitClock.graphicsCPUCycles]
    /\ UNCHANGED unitClock
    /\ UNCHANGED exceptClockVars

\* MasterClock::reset: the callbacks are kept
ClockReset ==
    /\ unitClock' = NewTimingClock
    /\ clockLog' = ClockEvent("reset", 0, 0, 0, IF clockCallback THEN 0 ELSE -1,
                               clockLog.calls)
    /\ UNCHANGED clockCallback
    /\ UNCHANGED exceptClockVars

\* one of the three add*Cycles calls
ClockAdd(op, cycles) ==
    /\ clockLog.calls < MaxClockCalls
    /\ LET st0 == [clk |-> unitClock, callback |-> clockCallback, vblanks |-> 0]
           st == CASE op = "addMainCPUCycles" -> addMainCPUCycles(st0, cycles)
                   [] op = "addGraphicsCPUCycles" -> addGraphicsCPUCycles(st0, cycles)
                   [] OTHER -> addSoundCPUCycles(st0, cycles)
       IN /\ unitClock' = st.clk
          /\ clockLog' = ClockEvent(op, cycles, st.vblanks, clockLog.vblanks + st.vblanks,
                                    clockLog.armedAt, clockLog.calls + 1)
    /\ UNCHANGED clockCallback
    /\ UNCHANGED exceptClockVars

ClockNext ==
    \/ ClockSetVBlankCallback
    \/ ClockReset
    \/ \E cycles \in CycleCounts : ClockAdd("addMainCPUCycles", cycles)
    \/ \E cycles \in CycleCounts : ClockAdd("addGraphicsCPUCycles", cycles)
    \/ \E cycles \in CycleCounts : ClockAdd("addSoundCPUCycles", cycles)

DeviceUnitInit ==
    /\ CartUnitInit /\ VideoUnitInit /\ AudioUnitInit
    /\ RasterUnitInit /\ Cpld3UnitInit /\ RendererUnitInit /\ ClockUnitInit

Init == MachineInit /\ MailboxUnitInit /\ BusUnitInit /\ DeviceUnitInit

Next ==
    \/ Initialize
    \/ \E file \in BusRomFiles : LoadROM(file)
    \/ \E c \in CpuNames : \E a \in WriteAddrs(c) : \E value \in WriteValues : BusWrite(c, a, value)
    \/ \E c \in CpuNames : \E a \in ReadAddrs(c) : BusRead(c, a)
    \/ \E mbox \in {"A", "B"} : \E dest \in BootDests : \E len \in 0..MaxLen :
          BootBegin(mbox, dest, len)
    \/ BootNext

Spec == Init /\ [][Next]_vars

SpecLife == Init /\ [][LifeNext]_vars

SpecMailbox == Init /\ [][MailboxNext]_vars

SpecBus == Init /\ [][MemoryBusNext]_vars

SpecFrame == Init /\ [][FrameNext]_vars

SpecCart == Init /\ [][CartNext]_vars

SpecVideo == Init /\ [][VideoNext]_vars

SpecAudio == Init /\ [][AudioNext]_vars

SpecClock == Init /\ [][ClockNext]_vars

SpecReload == Init /\ [][ReloadNext]_vars

SpecLayers == Init /\ [][LayersNext]_vars

SpecBoot == Init /\ [][BootNextMessages]_vars

\* SpecAudio with the sample clock running: tick() is called again and again
SpecAudioLive == Init /\ [][AudioNext]_vars /\ WF_vars(AudioTick)

SpecRaster == Init /\ [][RasterNext]_vars

SpecRenderer == Init /\ [][RendererNext]_vars

SpecCpld3Table == Init /\ [][Cpld3TableNext]_vars

SpecCpld3Latch == Init /\ [][Cpld3LatchNext]_vars

SpecCpld3IRQ == Init /\ [][Cpld3IRQNext]_vars

(***************************************************************************)
(* Properties                                                              *)
(***************************************************************************)
Count(trace, kind) == Cardinality({k \in 1..Len(trace) : trace[k][1] = kind})

BootComplete(mbox) == ev.op = "boot" /\ boot.mbox = mbox /\ boot.pos = Len(boot.msg)

BootDest == boot.msg[2] + 256 * boot.msg[3]

BootLen == boot.msg[4] + 256 * boot.msg[5]

CoprocessorRAM(mbox) == IF mbox = "A" THEN graphicsRAM ELSE soundRAM

\* the i-th payload byte of the message being delivered is where the copy puts it
PayloadCopied(mbox, i) ==
    RAM_readByte(CoprocessorRAM(mbox), Flat(0, (BootDest + i - 1) % OffsetSpace))
        = boot.msg[5 + i]

\* C1: on a freshly initialized machine, once the Main CPU has written a boot
\* message (0x01, dest, len, payload) to mailbox A byte by byte in ascending
\* order, Graphics RAM bank 0 holds the payload at dest .. dest+len-1 (offsets
\* within the bank, mod 2^16), the Graphics CPU RES pin is released and its
\* program address is (0, 0).
C1_BootCopyEndState ==
    BootComplete("A") =>
        /\ \A i \in 1..BootLen : PayloadCopied("A", i)
        /\ cpu["graphics"].RES = FALSE
        /\ cpu["graphics"].PC = <<0, 0>>

C1_Witness ==
    /\ BootComplete("A")
    /\ BootLen = MaxLen
    /\ BootDest = 4096
    /\ RAM_readByte(graphicsRAM, 4096) = 222

\* C2: while the Main CPU delivers a boot-copy message to mailbox A or B one byte
\* per store, the coprocessor's reset-release callback is invoked by a store
\* only when all len payload bytes of the message are already in its RAM.
C2_ReleaseAfterPayload ==
    \A mbox \in {"A", "B"} :
        (ev.op = "boot" /\ boot.mbox = mbox /\ Count(ev.trace, "reset") > 0) =>
            \A i \in 1..BootLen : PayloadCopied(mbox, i)

\* C3: with a ROM loaded whose graphics (sound) entry point is zero, the
\* Graphics (Sound) CPU RES pin is asserted in every state reached by
\* initialize, loadROM, reset and runFrame calls until CPLD2 (CPLD1) has
\* handled a boot-copy command.
C3_HeldInReset ==
    \A c \in {"graphics", "sound"} :
        (/\ initialized
         /\ LiveCartridgeLoaded
         /\ c \notin released
         /\ IF c = "graphics"
            THEN carts[cartridge].header.graphicsCPU_entryPoint = 0
            ELSE carts[cartridge].header.soundCPU_entryPoint = 0)
        => cpu[c].RES = TRUE

\* C4: a store into mailbox A after which the byte at offset 0 is not 0x01 makes
\* CPLD2 invoke the Graphics-CPU IRQ callback exactly once and the
\* reset-release callback not at all, and leaves Graphics RAM as it was.
C4_NonBootWrite ==
    [][(/\ ev'.op \in {"write", "boot"}
        /\ Count(ev'.trace, "cbA") > 0
        /\ Mailbox_readValue(mailboxA', MAILBOX_A_BASE) # 1)
       => /\ Count(ev'.trace, "cbA") = 1
          /\ Count(ev'.trace, "irq") = 1
          /\ Count(ev'.trace, "reset") = 0
          /\ Count(ev'.trace, "ramw") = 0
          /\ graphicsRAM' = graphicsRAM
          /\ cpu'["graphics"] = setIRQPin(cpu["graphics"], TRUE)]_vars

C4_Witness ==
    /\ ev.op = "write"
    /\ ev.addr = MAILBOX_A_BASE
    /\ ev.value = 2
    /\ Count(ev.trace, "cbA") = 1
    /\ Count(ev.trace, "irq") = 1
    /\ cpu["graphics"].IRQ
    /\ cpu["graphics"].RES

HandlerA(data) ==
    OnMailboxAWrite([NewMailbox(MAILBOX_A_BASE, MAILBOX_SIZE) EXCEPT
                        !.data = data, !.newDataFlag = TRUE],
                    NewRAM(0, GRAPHICS_RAM_SIZE), NewCpu)

HandlerB(data) ==
    OnMailboxBWrite([NewMailbox(MAILBOX_B_BASE, MAILBOX_SIZE) EXCEPT
                        !.data = data, !.newDataFlag = TRUE],
                    NewRAM(0, SOUND_RAM_SIZE), NewCpu)

\* C5: on the same mailbox contents, CPLD2's mailbox-A handler and CPLD1's
\* mailbox-B handler make the same RAM writes (address and value in bank 0),
\* the same reset-release invocation and the same IRQ-callback invocation, and
\* leave the same mailbox contents and coprocessor pins behind.
C5_HandlersEquivalent ==
    \A data \in {mailboxA.data, mailboxB.data} :
        /\ HandlerA(data).trace = HandlerB(data).trace
        /\ HandlerA(data).ram.data = HandlerB(data).ram.data
        /\ HandlerA(data).cpu = HandlerB(data).cpu
        /\ HandlerA(data).mb.data = HandlerB(data).mb.data
        /\ HandlerA(data).mb.newDataFlag = HandlerB(data).mb.newDataFlag

C5_Witness ==
    /\ BootComplete("B")
    /\ BootLen = MaxLen
    /\ Count(HandlerA(mailboxB.data).trace, "ramw") = MaxLen
    /\ Count(HandlerB(mailboxB.data).trace, "reset") = 1

\* C6: a Mailbox store to an offset inside the mailbox stores the byte (and no
\* other), sets new_data (the callback finds it set) and calls the bound write
\* callback exactly once before returning; a store to an offset outside stores
\* nothing, leaves new_data as it was and calls no callback.
C6_MailboxWrite ==
    unitLog.op = "store" =>
        LET before == unitLog.before
            seen == unitLog.seen
            off == (unitLog.addr + AddrSpace - before.baseAddress) % AddrSpace
        IN IF off < before.size
           THEN /\ Get(seen.data, off, 0) = unitLog.value
                /\ \A o \in (DOMAIN before.data \cup DOMAIN seen.data) \ {off} :
                      Get(seen.data, o, 0) = Get(before.data, o, 0)
                /\ seen.newDataFlag = TRUE
                /\ unitLog.calls = IF unitCallback = "none" THEN 0 ELSE 1
                /\ unitMailbox.data = seen.data
                /\ unitCallback # "reader" => unitMailbox.newDataFlag = TRUE
           ELSE /\ unitMailbox = before
                /\ unitLog.calls = 0

C6_Witness ==
    /\ unitLog.op = "store"
    /\ unitLog.addr = MAILBOX_A_BASE + MAILBOX_SIZE - 1
    /\ unitLog.value = 255
    /\ unitCallback = "notify"
    /\ unitLog.calls = 1
    /\ ~unitLog.before.newDataFlag
    /\ unitMailbox.newDataFlag

\* C7: a Mailbox read of any offset inside the mailbox, the one last written or
\* another, leaves new_data false, returns the byte stored at the offset read
\* and leaves the stored data as it was.
C7_ReadClearsNewData ==
    unitLog.op = "read" =>
        LET before == unitLog.before
            off == (unitLog.addr + AddrSpace - before.baseAddress) % AddrSpace
        IN off < before.size =>
              /\ unitMailbox.newDataFlag = FALSE
              /\ unitLog.ret = Get(before.data, off, 0)
              /\ unitMailbox.data = before.data

C7_Witness ==
    /\ unitLog.op = "read"
    /\ unitLog.addr = MAILBOX_A_BASE + 5
    /\ unitLog.before.newDataFlag
    /\ Get(unitLog.before.data, 0, 0) = 1
    /\ 5 \notin DOMAIN unitLog.before.data
    /\ ~unitMailbox.newDataFlag

\* the device of the earliest registration whose range holds the address, 0 if none
FirstRegistered(address) ==
    LET hits == {i \in 1..Len(registrations) : RegionHolds(registrations[i], address)}
    IN IF hits = {} THEN 0
       ELSE registrations[CHOOSE i \in hits : \A j \in hits : i <= j].device

\* no two registrations share a base address: the order std::sort leaves is determined
DistinctBases ==
    \A i \in 1..Len(registrations) : \A j \in 1..Len(registrations) :
        i # j => registrations[i].baseAddress # registrations[j].baseAddress

\* C8, for registrations of pairwise different base addresses: a bus read of a
\* returns Dj.read(a) for the least registration index j whose device claims
\* a, and 0xFF when none does; a bus write goes to that same Dj and changes
\* nothing when none claims a.
C8_BusDispatch ==
    DistinctBases =>
    /\ busLog.op = "read" =>
          busLog.ret = IF FirstRegistered(busLog.address) = 0 THEN 255
                       ELSE Device_read(deviceMem, FirstRegistered(busLog.address),
                                        busLog.address)
    /\ busLog.op = "write" =>
          deviceMem = IF FirstRegistered(busLog.address) = 0 THEN busLog.before
                      ELSE Device_write(busLog.before, FirstRegistered(busLog.address),
                                        busLog.address, busLog.value)

\* C9: a Main-bus write to an address in $400200..$40021F reaches CPLD2's
\* register file (a write to $400200 sets video_mode), is not stored into
\* mailbox A and is not reported to the mailbox-A write handler.
C9_Cpld2Dispatch ==
    (/\ ev.op = "write"
     /\ ev.bus = "main"
     /\ ev.addr >= CPLD2_BASE
     /\ ev.addr < CPLD2_BASE + CPLD2_SIZE)
    => /\ Count(ev.trace, "cbA") = 0
       /\ \A a \in CPLD2_BASE..(CPLD2_BASE + CPLD2_SIZE - 1) :
             (a - MAILBOX_A_BASE) \notin DOMAIN mailboxA.data
       /\ cpld2 = CPLD2_storeByte(NewCPLD2, ev.addr, ev.value)

ProbeAddrs ==
    {0, 16, 4096, 4097, 65535, MAILBOX_A_BASE, MAILBOX_A_BASE + 5, MAILBOX_A_BASE + 512,
     MAILBOX_A_BASE + MAILBOX_SIZE, MAILBOX_B_BASE, MAILBOX_B_BASE + 5, BANK_REGISTER,
     SAVE_RAM_START, ROM_WINDOW_START}

\* the step changes what CPU d's bus reads at address a
ReadChanges(d, a) ==
    SystemBus_readValue(MachineNext, busDevs'[d], a)
        # SystemBus_readValue(Machine, busDevs[d], a)

\* a is an address of the mailbox CPUs c and d share
SharedMailbox(c, d, a) ==
    \/ {c, d} = {"main", "graphics"} /\ Mailbox_decodeAddress(mailboxA, a)
    \/ {c, d} = {"main", "sound"} /\ Mailbox_decodeAddress(mailboxB, a)

\* C10 as stated: a write on one CPU's bus changes what another CPU's bus reads
\* only at addresses of the mailbox the two CPUs share.
C10_IsolationAsStated ==
    [][ev'.op \in {"write", "boot"} =>
          \A d \in CpuNames \ {ev'.bus} : \A a \in ProbeAddrs :
              ReadChanges(d, a) => SharedMailbox(ev'.bus, d, a)]_vars

\* C10: a write on one CPU's bus changes what another CPU's bus reads only at
\* addresses of the mailbox the two CPUs share, at the bytes of the
\* coprocessor's RAM that the boot-copy triggered by that mailbox write
\* stores, and, for a write to a cartridge address, at cartridge addresses.
C10_Isolation ==
    [][ev'.op \in {"write", "boot"} =>
          \A d \in CpuNames \ {ev'.bus} : \A a \in ProbeAddrs :
              ReadChanges(d, a) =>
                 \/ SharedMailbox(ev'.bus, d, a)
                 \/ /\ d \in BootHandled(ev'.trace)
                    /\ \E k \in 1..Len(ev'.trace) :
                          ev'.trace[k][1] = "ramw" /\ ev'.trace[k][2] = a
                 \/ /\ Cartridge_decodeAddress(ev'.addr)
                    /\ Cartridge_decodeAddress(a)]_vars

C10_Witness ==
    /\ ev.op = "write"
    /\ ev.bus = "main"
    /\ ev.addr = BANK_REGISTER
    /\ ev.value = 1
    /\ SystemBus_readValue(Machine, busDevs["graphics"], ROM_WINDOW_START) = 187

\* C11: once initialize() has completed, no operation changes the ordered
\* list of devices that any of the three buses probes.
C11_DeviceListFixed ==
    [][initialized => busDevs' = busDevs]_vars

\* the byte the ROM holds at an index, 0xFF past its end
RomByteOr255(cart, index) ==
    IF index < cart.rom.size THEN Get(cart.rom.bytes, index, 0) ELSE 255

\* C12: after a write of v to $420000 the current bank is v mod 16 and, until
\* the bank is written again or a ROM is loaded, a read of a in
\* $C00000..$FFFFFF returns rom[(v mod 16) * 4MB + (a - $C00000)] inside the
\* ROM and 0xFF outside; a write to a cartridge address other than $420000
\* and the save-RAM range changes nothing.
C12_Banking ==
    /\ (cartLog.op = "store" /\ cartLog.addr = BANK_REGISTER) =>
          /\ unitCart.currentBank = cartLog.value % 16
          /\ unitCart = [cartLog.before EXCEPT !.currentBank = cartLog.value % 16]
    /\ (cartLog.op = "read" /\ cartLog.lastBank >= 0
            /\ cartLog.addr >= 12582912 /\ cartLog.addr <= 16777215) =>
          /\ cartLog.ret = RomByteOr255(unitCart,
                              (cartLog.lastBank % 16) * 4194304 + (cartLog.addr - 12582912))
          /\ unitCart = cartLog.before
    /\ (cartLog.op = "store" /\ cartLog.addr # BANK_REGISTER
            /\ ~(cartLog.addr >= SAVE_RAM_START /\ cartLog.addr <= SAVE_RAM_END)) =>
          unitCart = cartLog.before

\* bank 17 mod 16 = 1 selected on the 8 MB image: $C00000 reads the first byte of bank 1
C12_Witness ==
    /\ cartLog.op = "read"
    /\ cartLog.lastBank = 17
    /\ cartLog.addr = ROM_WINDOW_START
    /\ cartLog.ret = 187
    /\ unitCart.rom.size = 2 * BANK_SIZE

\* C20: a load (from a file or from memory) of an empty input or of more than
\* 64 MB fails and leaves rom, header and current_bank as they were; a
\* successful load makes rom the input bytes and current_bank 0.
C20_LoadROM ==
    cartLog.op \in {"loadFile", "loadMemory"} =>
        /\ (cartLog.value.size = 0 \/ cartLog.value.size > 67108864) =>
              /\ cartLog.ret = FALSE
              /\ unitCart.rom = cartLog.before.rom
              /\ unitCart.header = cartLog.before.header
              /\ unitCart.currentBank = cartLog.before.currentBank
        /\ cartLog.ret = TRUE =>
              /\ unitCart.rom.size = cartLog.value.size
              /\ unitCart.rom.bytes = cartLog.value.bytes
              /\ unitCart.currentBank = 0

\* an 8 MB image is loaded from memory over a 3-byte ROM with bank 15 selected
C20_Witness ==
    /\ cartLog.op = "loadMemory"
    /\ cartLog.ret = TRUE
    /\ cartLog.value.size = 2 * BANK_SIZE
    /\ cartLog.before.currentBank = 15
    /\ cartLog.before.rom.size = 3
    /\ unitCart.currentBank = 0

\* a file of 64 MB + 1 byte is refused while a ROM is loaded and bank 1 selected
C20_WitnessRefused ==
    /\ cartLog.op = "loadFile"
    /\ cartLog.value = HugeFile
    /\ cartLog.ret = FALSE
    /\ cartLog.before.currentBank = 1
    /\ unitCart.rom.size = 2 * BANK_SIZE

\* positions in a frame's trace at which the CPU c is run
RunsOf(trace, c) == {i \in 1..Len(trace) : trace[i][1] = "run" /\ trace[i][2] = c}

\* positions in a frame's trace at which the renderer draws
Renders(trace) == {i \in 1..Len(trace) : trace[i][1] = "render"}

\* C13: in every run_frame() that executes, all Main CPU steps come before all
\* Graphics CPU steps, these before all Sound CPU steps, and the renderer
\* draws only after the Graphics CPU's last step.
C13_FrameOrdering ==
    (ev.op = "runFrame" /\ ev.ret = 1) =>
        /\ RunsOf(ev.trace, "main") # {}
        /\ RunsOf(ev.trace, "graphics") # {}
        /\ RunsOf(ev.trace, "sound") # {}
        /\ Renders(ev.trace) # {}
        /\ \A i \in RunsOf(ev.trace, "main") : \A j \in RunsOf(ev.trace, "graphics") : i < j
        /\ \A i \in RunsOf(ev.trace, "graphics") : \A j \in RunsOf(ev.trace, "sound") : i < j
        /\ \A i \in RunsOf(ev.trace, "graphics") : \A j \in Renders(ev.trace) : i < j

\* the second frame after a reset has run
C13_Witness ==
    /\ ev.op = "runFrame"
    /\ ev.ret = 1
    /\ clock.frameCount = 2
    /\ running

\* C14: when a run_frame() issued while running and not paused returns, no CPU
\* has budget left (should_run_main_cpu, should_run_graphics_cpu and
\* should_run_sound_cpu are all false) and the frame counter is one higher.
C14_FrameBudgets ==
    [][(ev'.op = "runFrame" /\ ev'.ret = 1) =>
          /\ ~shouldRunMainCPU(clock')
          /\ ~shouldRunGraphicsCPU(clock')
          /\ ~shouldRunSoundCPU(clock')
          /\ clock'.frameCount = clock.frameCount + 1]_vars

\* C15: a run_frame() called while stopped or paused runs no CPU, leaves the
\* clock's frame counter and cycle targets alone, and leaves the frame buffer
\* unchanged.
C15_StoppedFrameNoOp ==
    [][(ev'.op = "runFrame" /\ (~running \/ paused)) =>
          /\ ev'.ret = 0
          /\ ev'.trace = <<>>
          /\ clock' = clock
          /\ framebuffer' = framebuffer
          /\ cpu' = cpu
          /\ memVars' = memVars]_vars

\* run_frame() was called after stop(), one frame having run before, while
\* VRAM holds a byte the frame buffer was not drawn from
C15_Witness ==
    /\ ev.op = "runFrame"
    /\ ev.ret = 0
    /\ initialized
    /\ ~running
    /\ clock.frameCount = 1
    /\ framebuffer.vram # graphicsRAM.data

\* C16: from reset in 240p mode with the vblank callback set, the callback is
\* not invoked by any of the first 857 * 262 - 1 calls of tick(), and after
\* exactly 857 * 262 calls raster_line = 0, raster_x = 0 and the callback has
\* been invoked exactly once.
C16_FramePeriod ==
    (videoLog.mode240 /\ videoCallback) =>
        /\ videoLog.ticks < 857 * 262 => videoLog.called = 0
        /\ videoLog.ticks = 857 * 262 =>
              /\ unitVideo.rasterLine = 0
              /\ unitVideo.rasterX = 0
              /\ videoLog.called = 1

\* the 224,534th tick after a reset in 240p mode has been made
C16_Witness ==
    /\ videoLog.ticks = 857 * 262
    /\ videoLog.mode240
    /\ videoCallback
    /\ videoLog.called = 1
    /\ unitVideo.vblankIRQPending

\* samples held by the FIFO of a channel
Held(dev, ch) == Len(dev.fifos[ch].samples)

\* the tick drains a sample from the channel's FIFO
Drains(dev, ch) == dev.enabled /\ Held(dev, ch) > 0

\* C17: a tick that drains a sample from a FIFO holding irq_threshold samples
\* (more generally: that leaves it below irq_threshold) while the channel's IRQ
\* bit is clear sets the bit; while the bit is set, a tick does not set it
\* again and leaves it set; a store to $40011A clears the bits written as 1,
\* after which the next draining tick that leaves the level below the
\* threshold sets the bit again.
C17_LowWatermarkIRQ ==
    [][\A ch \in Channels :
          /\ unitAudio.fifos[ch].irqPending = BitSet(unitAudio.irqStatus, ch)
          /\ (audioLog'.op = "tick" /\ Drains(unitAudio, ch)
                /\ ~BitSet(unitAudio.irqStatus, ch)
                /\ Held(unitAudio, ch) - 1 < unitAudio.irqThreshold) =>
                    /\ BitSet(unitAudio'.irqStatus, ch)
                    /\ ch \in audioLog'.raised
          /\ (audioLog'.op = "tick" /\ BitSet(unitAudio.irqStatus, ch)) =>
                    /\ BitSet(unitAudio'.irqStatus, ch)
                    /\ ch \notin audioLog'.raised
          /\ (audioLog'.op = "store" /\ audioLog'.offset = 26) =>
                    BitSet(unitAudio'.irqStatus, ch) =
                        (BitSet(unitAudio.irqStatus, ch) /\ ~BitSet(audioLog'.value, ch))]_vars

\* the FIFO of channel 0 held 128 samples, the default threshold, and a tick
\* has just set its IRQ bit
C17_Witness ==
    /\ audioLog.op = "tick"
    /\ audioLog.raised = {0}
    /\ Held(unitAudio, 0) = 127
    /\ unitAudio.irqThreshold = 128
    /\ unitAudio.irqStatus = 1

\* C18: no FIFO ever holds more than 256 samples, and a write to the FIFO
\* register of a channel holding 256 samples changes no FIFO and not
\* irq_status.
C18_FIFOCapacity ==
    [][/\ \A ch \in Channels : Held(unitAudio', ch) <= 256
       /\ (audioLog'.op = "write" /\ Held(unitAudio, audioLog'.offset \div 2) = 256) =>
             /\ unitAudio'.fifos = unitAudio.fifos
             /\ unitAudio'.irqStatus = unitAudio.irqStatus
             /\ unitAudio' = unitAudio]_vars

\* a write to the full FIFO of channel 0 has just been dropped while channel 7
\* holds a sample
C18_Witness ==
    /\ audioLog.op = "write"
    /\ audioLog.offset = 0
    /\ audioLog.ret = 1
    /\ Held(unitAudio, 0) = 256
    /\ Held(unitAudio, 7) = 1

\* C19: a store to a channel's FIFO write register never lowers the value
\* read from the channel's fill-level register ($400110 + channel).
C19_LevelMonotone ==
    [][audioLog'.op = "write" =>
          CPLD1_readByte(unitAudio', 4194576 + audioLog'.offset \div 2)
             >= CPLD1_readByte(unitAudio, 4194576 + audioLog'.offset \div 2)]_vars


\* the save-RAM addresses among the probed ones
SaveAddrs == {a \in CartAddrs : addressInSaveRAM(a)}

\* C21: while no save RAM was created, a read in $700000..$70FFFF returns 0xFF and a
\* store there changes nothing; save RAM just created reads 0xFF everywhere; once it
\* exists, after a store of v to a a read of a returns v, the other save-RAM bytes
\* read as before, and the ROM contents and the selected bank are untouched
C21_SaveRAM ==
    /\ (cartLog.op = "read" /\ addressInSaveRAM(cartLog.addr)
            /\ cartLog.before.saveRAM.size = 0)
         => cartLog.ret = 255
    /\ (cartLog.op = "store" /\ addressInSaveRAM(cartLog.addr)
            /\ cartLog.before.saveRAM.size = 0)
         => unitCart = cartLog.before
    /\ (cartLog.op = "createSaveRAM" /\ cartLog.before.saveRAM.size = 0)
         => \A a \in SaveAddrs : Cartridge_readByte(unitCart, a) = 255
    /\ (cartLog.op = "store" /\ addressInSaveRAM(cartLog.addr)
            /\ cartLog.before.saveRAM.size > 0)
         => /\ Cartridge_readByte(unitCart, cartLog.addr) = cartLog.value
            /\ \A a \in SaveAddrs \ {cartLog.addr} :
                   Cartridge_readByte(unitCart, a) = Cartridge_readByte(cartLog.before, a)
            /\ unitCart.rom = cartLog.before.rom
            /\ unitCart.currentBank = cartLog.before.currentBank

\* a byte other than 0xFF was stored at the last save-RAM address of a loaded
\* cartridge while the first one holds another stored byte
C21_Witness ==
    /\ cartLog.op = "store" /\ cartLog.addr = SAVE_RAM_END /\ cartLog.value = 90
    /\ cartLog.before.saveRAM.size > 0 /\ Cartridge_isLoaded(unitCart)
    /\ Cartridge_readByte(unitCart, SAVE_RAM_START) = 0
    /\ Cartridge_readByte(unitCart, SAVE_RAM_END) = 90

\* a load (from a file or from memory) that ended with an image in place
LoadedImage ==
    /\ cartLog.op \in {"loadFile", "loadMemory"}
    /\ cartLog.ret

\* the bytes rom[from .. from + n - 1] as a sequence
RomBytes(rom, from, n) == [k \in 1..n |-> RomAt(rom, from + (k - 1))]

\* C22: after a load of an image of at least 256 bytes the header holds the three
\* entry points from bytes [0..9), the palette, tile and audio pointers from bytes
\* [9..18), the title from bytes [18..50) and the version from byte 50
C22_Header ==
    (LoadedImage /\ unitCart.rom.size >= 256)
    => /\ unitCart.header.mainCPU_entryPoint = Entry24(unitCart.rom, 0)
       /\ unitCart.header.graphicsCPU_entryPoint = Entry24(unitCart.rom, 3)
       /\ unitCart.header.soundCPU_entryPoint = Entry24(unitCart.rom, 6)
       /\ unitCart.header.paletteData = Entry24(unitCart.rom, 9)
       /\ unitCart.header.tileData = Entry24(unitCart.rom, 12)
       /\ unitCart.header.audioData = Entry24(unitCart.rom, 15)
       /\ unitCart.header.title = RomBytes(unitCart.rom, 18, TITLE_SIZE)
       /\ unitCart.header.version = RomAt(unitCart.rom, 50)

\* what the header holds instead: the six 24-bit fields and the version as claimed,
\* the title taken from bytes [12..43) and closed with a zero
C22_HeaderAsParsed ==
    (LoadedImage /\ unitCart.rom.size >= 256)
    => /\ unitCart.header.mainCPU_entryPoint = Entry24(unitCart.rom, 0)
       /\ unitCart.header.graphicsCPU_entryPoint = Entry24(unitCart.rom, 3)
       /\ unitCart.header.soundCPU_entryPoint = Entry24(unitCart.rom, 6)
       /\ unitCart.header.paletteData = Entry24(unitCart.rom, 9)
       /\ unitCart.header.tileData = Entry24(unitCart.rom, 12)
       /\ unitCart.header.audioData = Entry24(unitCart.rom, 15)
       /\ unitCart.header.title = Append(RomBytes(unitCart.rom, 12, TITLE_SIZE - 1), 0)
       /\ unitCart.header.version = RomAt(unitCart.rom, 50)

\* the last operation was a Main-bus store into the mailbox at base whose CPLD handler
\* took its non-boot branch
NonBootStore(base) ==
    /\ ev.op = "write" /\ ev.bus = "main"
    /\ ev.addr >= base /\ ev.addr < base + MAILBOX_SIZE
    /\ Count(ev.trace, "irq") = 1 /\ Count(ev.trace, "reset") = 0

\* C25: when a Main-bus store of a non-boot byte to mailbox A (resp. B) returns, the
\* Graphics (resp. Sound) CPU's IRQ pin is asserted and the mailbox's new-data flag
\* is still set (the CPLD handler has not consumed it)
C25_MailboxIRQ ==
    /\ NonBootStore(MAILBOX_A_BASE) => (cpu["graphics"].IRQ /\ mailboxA.newDataFlag)
    /\ NonBootStore(MAILBOX_B_BASE) => (cpu["sound"].IRQ /\ mailboxB.newDataFlag)

\* what holds instead: the IRQ pin is asserted, and the flag has been cleared by the
\* handler's own read of the command byte
C25_HandlerConsumes ==
    /\ NonBootStore(MAILBOX_A_BASE) => (cpu["graphics"].IRQ /\ ~mailboxA.newDataFlag)
    /\ NonBootStore(MAILBOX_B_BASE) => (cpu["sound"].IRQ /\ ~mailboxB.newDataFlag)

\* the step is one call of tick() that invoked vblankCallback
FiringTick == rasterLog'.ticks = 1 /\ rasterLog'.called > 0

\* no operation invokes the callback twice, and it is invoked at most once between
\* two IRQ clears (non-zero stores to $40020A) or resets
OncePerClear == rasterLog'.called <= 1 /\ rasterLog'.sinceClear <= 1

InHBlankRange(regs) == regs.rasterX >= 0 /\ regs.rasterX <= 137

InVBlankRange(regs) ==
    IF regs.videoMode = "MODE_240P"
    THEN regs.rasterLine < 22
    ELSE \/ (regs.rasterLine >= 0 /\ regs.rasterLine < 22)
         \/ (regs.rasterLine >= 262 /\ regs.rasterLine < 284)

\* C27: right after a tick in_hblank holds exactly when raster_x is in [0,137],
\* in_vblank exactly when raster_line < 22 (240p) or raster_line is in [0,22) or
\* [262,284) (480i), and allow_gcpu_vram_access() is in_hblank OR in_vblank
C27_BlankingFlags ==
    rasterLog.ticks > 0
    => /\ unitRaster.inHBlank <=> InHBlankRange(unitRaster)
       /\ unitRaster.inVBlank <=> InVBlankRange(unitRaster)
       /\ allowGCpuVramAccess(unitRaster)
             <=> (InHBlankRange(unitRaster) \/ InVBlankRange(unitRaster))

\* a tick left the raster outside vertical blanking on the last hblank pixel of a line
C27_Witness ==
    /\ rasterLog.ticks > 0
    /\ unitRaster.rasterX = 137 /\ unitRaster.rasterLine = 261
    /\ unitRaster.inHBlank /\ ~unitRaster.inVBlank
    /\ allowGCpuVramAccess(unitRaster)

\* a tick took the raster of the second 480i field into its vertical blanking, past hblank
C27_WitnessSecondField ==
    /\ rasterLog.ticks > 0 /\ unitRaster.videoMode = "MODE_480I"
    /\ unitRaster.rasterX = 138 /\ unitRaster.rasterLine = 283
    /\ ~unitRaster.inHBlank /\ unitRaster.inVBlank

\* the row of the scanline table built from three bytes stored to TABLE_DATA
RowOf(lo, hi, palette) == [scrollOffset |-> lo + 256 * hi, paletteSelect |-> palette]

\* rows start .. start + rows - 1 (modulo wrap) hold the first 3 * rows bytes
RowsFilled(dev, start, bytes, rows, wrap) ==
    \A j \in 0..(rows - 1) :
        TableRow(dev, (start + j) % wrap)
            = RowOf(bytes[3 * j + 1], bytes[3 * j + 2], bytes[3 * j + 3])

\* the bytes of the row under way are in the row the write pointer stands at
RowUnderWay(dev, bytes, stored) ==
    LET row == TableRow(dev, dev.tableAddr)
    IN /\ stored % 3 >= 1 => row.scrollOffset % 256 = bytes[stored - (stored % 3) + 1]
       /\ stored % 3 = 2 => row.scrollOffset \div 256 = bytes[stored]
       /\ dev.tableByteOffset = stored % 3

\* a store to TABLE_ADDR sets one byte of the write pointer and restarts the row
TableAddrStore ==
    /\ (cpld3Log.op = "store" /\ cpld3Log.offset = 18)
          => /\ unitCpld3.tableAddr % 256 = cpld3Log.value
             /\ unitCpld3.tableByteOffset = 0
    /\ (cpld3Log.op = "store" /\ cpld3Log.offset = 19)
          => /\ unitCpld3.tableAddr \div 256 = cpld3Log.value % 2
             /\ unitCpld3.tableByteOffset = 0

\* C28: a store to $400312/$400313 sets the table row index and resets
\* table_byte_offset; stores to $400314 put scroll-low, scroll-high and palette
\* into row table_addr, which then moves on, wrapping from 261 to 0: n consecutive
\* stores from row a fill rows a .. (a + n/3 - 1) mod 262
C28_TableLoad ==
    /\ TableAddrStore
    /\ cpld3Log.run.start < TABLE_ROWS
          => LET bytes == cpld3Log.run.bytes
                 rows == Len(bytes) \div 3
             IN /\ unitCpld3.tableAddr = (cpld3Log.run.start + rows) % TABLE_ROWS
                /\ RowsFilled(unitCpld3, cpld3Log.run.start, bytes, rows, TABLE_ROWS)
                /\ RowUnderWay(unitCpld3, bytes, Len(bytes))

\* what holds instead: the write pointer stops at 262 after row 261, and the
\* stores made while it stands there are dropped
C28_TableLoadAsCoded ==
    /\ TableAddrStore
    /\ cpld3Log.run.start < TABLE_ROWS
          => LET bytes == cpld3Log.run.bytes
                 room == 3 * (TABLE_ROWS - cpld3Log.run.start)
                 stored == IF Len(bytes) < room THEN Len(bytes) ELSE room
                 rows == stored \div 3
             IN /\ unitCpld3.tableAddr = cpld3Log.run.start + rows
                /\ RowsFilled(unitCpld3, cpld3Log.run.start, bytes, rows, 65536)
                /\ RowUnderWay(unitCpld3, bytes, stored)

\* the step is a call (or a run of calls) of onHSync
HSyncStep == cpld3Log'.op = "hsync"

\* C29: in register mode on_hsync latches (scroll_offset_reg, palette_select_reg) and
\* leaves table_index alone; in table mode the n-th on_hsync after table mode was
\* switched on latches scanline_table[(n-1) mod 262] and leaves table_index at
\* n mod 262; table_index is always in [0, 262)
C29_PerLineLatch ==
    [][/\ (HSyncStep /\ ~unitCpld3.tableMode)
             => /\ unitCpld3'.currentScrollOffset = unitCpld3.scrollOffsetReg
                /\ unitCpld3'.currentPaletteSelect = unitCpld3.paletteSelectReg
                /\ unitCpld3'.tableIndex = unitCpld3.tableIndex
       /\ (HSyncStep /\ unitCpld3.tableMode)
             => LET row == TableRow(unitCpld3, (cpld3Log'.hsyncs - 1) % TABLE_ROWS)
                IN /\ unitCpld3'.currentScrollOffset = row.scrollOffset
                   /\ unitCpld3'.currentPaletteSelect = row.paletteSelect
                   /\ unitCpld3'.tableIndex = cpld3Log'.hsyncs % TABLE_ROWS
       /\ unitCpld3'.tableIndex >= 0 /\ unitCpld3'.tableIndex < TABLE_ROWS]_vars

\* the 263rd on_hsync after table mode was switched on has latched row 0 again,
\* which holds bytes stored through TABLE_DATA
C29_Witness ==
    /\ cpld3Log.op = "hsync" /\ cpld3Log.hsyncs = TABLE_ROWS + 1
    /\ unitCpld3.tableMode /\ unitCpld3.tableIndex = 1
    /\ TableRow(unitCpld3, 0) = RowOf(TableByte(1), TableByte(2), TableByte(3))
    /\ unitCpld3.currentScrollOffset = TableByte(1) + 256 * TableByte(2)
    /\ unitCpld3.currentPaletteSelect = TableByte(3)

\* on_hsync in register mode has latched registers that were written
C29_WitnessRegisterMode ==
    /\ cpld3Log.op = "hsync" /\ ~unitCpld3.tableMode
    /\ unitCpld3.currentScrollOffset = 3 + 256 * 128
    /\ unitCpld3.currentPaletteSelect = 3
    /\ unitCpld3.tableIndex = 2

\* the IRQ condition of on_hsync(line), before the call
SplitLineDue(dev, line) == dev.irqEnable /\ line = dev.irqScanline /\ ~dev.irqPending

\* C30: on_hsync(line) invokes the IRQ callback exactly when irq_enable is set,
\* line = irq_scanline and irq_pending is clear, and then sets irq_pending; while
\* irq_pending is set it raises nothing; irq_pending is cleared only by a store
\* with bit 0 set to $400308 or by reset
C30_SplitLineIRQ ==
    [][/\ HSyncStep
             => /\ cpld3Callback
                    => (cpld3Log'.called = 1 <=> SplitLineDue(unitCpld3, cpld3Log'.offset))
                /\ cpld3Log'.called <= 1
                /\ unitCpld3'.irqPending
                    = (unitCpld3.irqPending \/ SplitLineDue(unitCpld3, cpld3Log'.offset))
       /\ (unitCpld3.irqPending /\ ~unitCpld3'.irqPending)
             => \/ cpld3Log'.op = "reset"
                \/ (cpld3Log'.op = "store" /\ cpld3Log'.offset = 8
                       /\ cpld3Log'.value % 2 = 1)
       /\ (cpld3Log'.op = "store" /\ cpld3Log'.offset = 8 /\ cpld3Log'.value % 2 = 1)
             => ~unitCpld3'.irqPending]_vars

\* on_hsync(261) has invoked the callback for the 9-bit split line 261
C30_Witness ==
    /\ cpld3Log.op = "hsync" /\ cpld3Log.offset = TABLE_ROWS - 1 /\ cpld3Log.called = 1
    /\ cpld3Callback
    /\ unitCpld3.irqScanline = TABLE_ROWS - 1
    /\ unitCpld3.irqEnable /\ unitCpld3.irqPending

\* on_hsync on the split line with the IRQ still pending has raised nothing
C30_WitnessPending ==
    /\ cpld3Log.op = "hsync" /\ cpld3Log.offset = unitCpld3.irqScanline
    /\ cpld3Log.called = 0 /\ cpld3Callback
    /\ unitCpld3.irqEnable /\ unitCpld3.irqPending

\* the palette entry of a colour index as the palette RAM holds it
PaletteEntry(vram, index) == readVRAM16(vram, PALETTE_RAM + index * 2)

\* a frame has just been rendered with the low two bits of VIDEO_MODE clear and
\* no store to the palette RAM since the frame that refreshed the palette cache
DirectFrameRendered ==
    /\ rendererLog.op = "renderFrame"
    /\ getRegister(unitRenderer.cpld2, 0) % 4 = 0
    /\ ~rendererLog.stale

\* C23: direct framebuffer mode: with the low two bits of video_mode 0 and the
\* palette loaded before the first render, after renderFrame() every pixel
\* framebuffer[line*320 + x] is the RGB565 conversion of the palette entry that
\* the VRAM byte at FRAMEBUFFER + line*320 + x selects, without compositing,
\* brightness or tint; palette entry 1 = 0xF800 and VRAM[$0000] = 0x01 give
\* framebuffer[0] = 0xFF0000FF
C23_DirectFramebuffer ==
    DirectFrameRendered =>
        /\ \A c \in FramebufferCells :
              unitRenderer.renderer.framebuffer[c] =
                  rgb565_to_rgba8888(
                      PaletteEntry(unitRenderer.vram,
                                   readVRAM(unitRenderer.vram, FRAMEBUFFER + c)))
        /\ (/\ PaletteEntry(unitRenderer.vram, 1) = 63488
            /\ readVRAM(unitRenderer.vram, 0) = 1)
              => unitRenderer.renderer.framebuffer[0] = Word32(255, 0, 0, 255)

\* C23 witness: a direct frame with palette entry 1 = 0xF800 and VRAM[$0000] = 1
\* was rendered, and pixel 0 is 0xFF0000FF
C23_Witness ==
    /\ DirectFrameRendered
    /\ PaletteEntry(unitRenderer.vram, 1) = 63488
    /\ readVRAM(unitRenderer.vram, 0) = 1
    /\ unitRenderer.renderer.framebuffer[0] = Word32(255, 0, 0, 255)

\* C23: a direct frame of a green pixel (entry 2 = 0x07E0, VRAM[$0000] = 2) is
\* reached while the CPLD2 is outside HBLANK
C23_WitnessGreen ==
    /\ DirectFrameRendered
    /\ ~unitRenderer.cpld2.inHBlank
    /\ PaletteEntry(unitRenderer.vram, 2) = 2016
    /\ readVRAM(unitRenderer.vram, 0) = 2
    /\ unitRenderer.renderer.framebuffer[0] = Word32(255, 0, 255, 0)

\* the green channel of a pixel is above its red and its blue channel
GreenDominant(color) == color[3] > color[2] /\ color[3] > color[4]

\* the set-up of the tilemap scenario was issued and a frame has just been
\* rendered: VIDEO_MODE reads 1, 0x01 was stored to the layer enable $400201 and
\* 0x02 (8bpp, 8x8) to the control byte $400214 of layer 0, the scroll registers
\* read 0, tilemap entry (0,0) is tile 1, palette index 2 was stored to the first
\* byte of tile 1, palette entry 2 is 0x07E0 and was loaded before the first frame
TilemapScenarioRendered ==
    /\ rendererLog.op = "renderFrame"
    /\ getRegister(unitRenderer.cpld2, 0) = 1
    /\ {1, 20, TILE_DATA + 64} \subseteq rendererLog.issued
    /\ \A reg \in 16..19 : getRegister(unitRenderer.cpld2, reg) = 0
    /\ readVRAM16(unitRenderer.vram, TILEMAP_BG0) = 1
    /\ PaletteEntry(unitRenderer.vram, 2) = 2016
    /\ ~rendererLog.stale

\* C24: tilemap scenario: with video_mode 1, layer 0 enabled through the CPLD2
\* layer-enable register, 8x8 8bpp tiles, scroll (0,0), tilemap entry (0,0) =
\* tile 1, first pixel of tile 1 = palette index 2 and palette entry 2 = 0x07E0,
\* after renderFrame() framebuffer[0] has green as its dominant channel
C24_TilemapScenario ==
    TilemapScenarioRendered => GreenDominant(unitRenderer.renderer.framebuffer[0])

\* C24, as the code has it: a frame rendered with VIDEO_MODE = 1 shows at every
\* pixel the backdrop, palette entry 0 of the cache, dimmed to brightness
\* HBLANK_STATUS / 31, and leaves the layer buffers clear
C24_BackdropAsCoded ==
    (rendererLog.op = "renderFrame" /\ getRegister(unitRenderer.cpld2, 0) = 1) =>
        /\ \A c \in FramebufferCells :
              unitRenderer.renderer.framebuffer[c] =
                  applyBrightness(PaletteColor(unitRenderer.renderer.paletteRGBA, 0),
                                  IF unitRenderer.cpld2.inHBlank THEN 1 ELSE 0)
        /\ unitRenderer.renderer.layerBuffers = VideoRenderer_reset.layerBuffers

\* C40: palette cache coherence: at every renderFrame() the colours used for
\* output are the RGB565 conversion of the palette RAM as it is at that
\* moment, so a palette store between two frames shows in the second frame
\* (stated on direct frames, where every pixel is one palette colour)
C40_PaletteCoherence ==
    (rendererLog.op = "renderFrame" /\ getRegister(unitRenderer.cpld2, 0) % 4 = 0) =>
        \A c \in FramebufferCells :
            unitRenderer.renderer.framebuffer[c] =
                rgb565_to_rgba8888(
                    PaletteEntry(unitRenderer.vram,
                                 readVRAM(unitRenderer.vram, FRAMEBUFFER + c)))

\* C40, as the code has it: the palette cache is the grayscale ramp until the
\* first frame after construction or reset() and is not refreshed after it
C40_CacheAsCoded ==
    /\ unitRenderer.renderer.paletteDirty = unitRenderer.renderer.paletteRGBA.grayscale
    /\ (~unitRenderer.renderer.paletteDirty /\ ~rendererLog.stale) =>
          \A i \in 0..3 :
              PaletteColor(unitRenderer.renderer.paletteRGBA, i) =
                  rgb565_to_rgba8888(PaletteEntry(unitRenderer.vram, i))
    /\ [][(~unitRenderer.renderer.paletteDirty /\ ~unitRenderer'.renderer.paletteDirty)
              => unitRenderer'.renderer.paletteRGBA = unitRenderer.renderer.paletteRGBA]_vars

\* C36: CPLD2 raster position invariant: in every reachable state, under any
\* interleaving of tick(), register stores (video-mode changes included) and
\* reset(), rasterX < 857 and rasterLine < the total lines of the current video
\* mode (262 in 240p, 525 in 480i)
C36_RasterPosition ==
    /\ unitRaster.rasterX < PIXELS_PER_LINE
    /\ unitRaster.rasterLine < getTotalLines(unitRaster)

\* C36, as the code has it: rasterX < 857 and rasterLine < 525 in every state,
\* and a line at or past the total of the current mode is left at its end
C36_RasterPositionAsCoded ==
    /\ unitRaster.rasterX < PIXELS_PER_LINE
    /\ unitRaster.rasterLine < LINES_PER_FRAME_480I
    /\ unitRaster.rasterLine >= getTotalLines(unitRaster) => unitRaster.videoMode = "MODE_240P"

\* C38: in every reachable state of the CPLD1, bit ch of irqStatus is set exactly
\* when fifos[ch].irqPending is true, for each of the eight channels, and a
\* tick() that invoked the IRQ callback left irqStatus non-zero
C38_IRQBookkeeping ==
    /\ \A ch \in Channels :
          BitSet(unitAudio.irqStatus, ch) = unitAudio.fifos[ch].irqPending
    /\ (audioLog.op = "tick" /\ audioLog.called > 0) => unitAudio.irqStatus # 0

\* a tick has invoked the callback without setting a bit itself: channel 0
\* holds the only pending IRQ, set by an earlier tick
C38_Witness ==
    /\ audioLog.op = "tick"
    /\ audioLog.called = 1
    /\ audioLog.raised = {}
    /\ audioCallback
    /\ unitAudio.irqStatus = 1
    /\ unitAudio.fifos[0].irqPending
    /\ ~unitAudio.fifos[7].irqPending

\* a channel that is starved: the device is enabled with its callback set, the
\* level of the channel is below irqThreshold and its IRQ bit is clear
Starved(ch) ==
    /\ unitAudio.enabled
    /\ audioCallback
    /\ getLevel(unitAudio.fifos[ch]) < unitAudio.irqThreshold
    /\ ~BitSet(unitAudio.irqStatus, ch)

\* C39: with tick() called again and again, a starved channel of the enabled
\* CPLD1 is signalled by the next tick: whenever the channel's level is below
\* irqThreshold and its IRQ bit is clear, a tick follows that has set the bit and
\* invoked the IRQ callback (or the channel has stopped being starved)
C39_StarvedSignalled ==
    \A ch \in AudioChannels :
        Starved(ch) ~> \/ (audioLog.op = "tick" /\ ch \in audioLog.raised
                             /\ audioLog.called > 0)
                       \/ ~Starved(ch)

\* C39, step by step: a tick() of the enabled device sets the IRQ bit of every
\* channel whose level is below irqThreshold with the bit clear, and invokes
\* the callback
C39_NextTickSignals ==
    [][\A ch \in AudioChannels :
          (Starved(ch) /\ audioLog'.op = "tick") =>
              /\ BitSet(unitAudio'.irqStatus, ch)
              /\ audioLog'.called > 0]_vars

\* what tick() does for a starved channel: it sets the bit when it pops a
\* sample and the level read after the pop is below irqThreshold, and leaves
\* an empty FIFO unsignalled; the callback is invoked when a bit is set
C39_SignalledAsCoded ==
    [][\A ch \in AudioChannels :
          (Starved(ch) /\ audioLog'.op = "tick") =>
              /\ BitSet(unitAudio'.irqStatus, ch) =
                    (/\ Held(unitAudio, ch) > 0
                     /\ (Held(unitAudio, ch) - 1) % 256 < unitAudio.irqThreshold)
              /\ (audioLog'.called > 0) = (unitAudio'.irqStatus # 0)]_vars

\* the times graphicsCPUCycles, on its way from a to g, reached the first cycle
\* of scanline 240 of a frame of GRAPHICS_CPU_FREQ / FRAME_RATE cycles
VBlankCrossings(a, g) ==
    LET frame == GRAPHICS_CPU_FREQ \div FRAME_RATE
        lead == frame - SCANLINES_PER_FRAME * PIXELS_PER_SCANLINE
    IN ((g + lead) \div frame) - ((a + lead) \div frame)

\* C37: after any sequence of add*Cycles calls currentScanline is in 0..261 and
\* currentPixel in 0..857, and onVBlank has been invoked once for each
\* 13,500,000 / 60 graphics cycles: once for every time the cycle count reached
\* scanline 240 of a frame since the callback was set
C37_ClockRaster ==
    /\ unitClock.currentScanline \in 0..(TOTAL_SCANLINES - 1)
    /\ unitClock.currentPixel \in 0..(PIXELS_PER_SCANLINE - 1)
    /\ clockCallback =>
          clockLog.vblanks = VBlankCrossings(clockLog.armedAt, unitClock.graphicsCPUCycles)

\* what updateVideoTiming keeps: the position is that of graphicsCPUCycles as of
\* the last addMainCPUCycles or addGraphicsCPUCycles call, within a frame of
\* 225,000 cycles and lines of 858, so that scanline 262 is reached with pixels
\* 0..203; a call invokes onVBlank at most once, and never more often than
\* scanline 240 was reached
C37_ClockRasterAsCoded ==
    /\ unitClock.currentScanline \in 0..TOTAL_SCANLINES
    /\ unitClock.currentPixel \in 0..(PIXELS_PER_SCANLINE - 1)
    /\ unitClock.currentScanline = TOTAL_SCANLINES =>
          unitClock.currentPixel <
              (GRAPHICS_CPU_FREQ \div FRAME_RATE) - TOTAL_SCANLINES * PIXELS_PER_SCANLINE
    /\ unitClock.currentScanline * PIXELS_PER_SCANLINE + unitClock.currentPixel =
          unitClock.masterCycles % (GRAPHICS_CPU_FREQ \div FRAME_RATE)
    /\ clockLog.called \in {0, 1}
    /\ clockCallback =>
          clockLog.vblanks <= VBlankCrossings(clockLog.armedAt, unitClock.graphicsCPUCycles)

\* the device of bus c that serves address a (none: the empty device)
ServingDevice(c, a) ==
    LET i == SystemBus_find(Machine, busDevs[c], a)
    IN IF i = 0 THEN Dev("") ELSE busDevs[c][i]

\* C35: on an initialized machine whose last load_rom() call succeeded (by file
\* path or from memory), every read in the ROM window on each of the three
\* buses is served by the cartridge loaded last: the bus walk reaches no
\* destroyed cartridge, and a read made returns that cartridge's byte
C35_RomReload ==
    /\ (initialized /\ ~crashed /\ LiveCartridgeLoaded) =>
          \A c \in CpuNames : \A a \in RomProbeAddrs :
              /\ ServingDevice(c, a) = CartDev(cartridge)
              /\ ~SystemBus_dangling(Machine, busDevs[c], a)
    /\ (ev.op = "read" /\ ev.addr \in RomProbeAddrs /\ LiveCartridgeLoaded) =>
          ev.ret = Cartridge_readByte(carts[cartridge], ev.addr)
    /\ (ev.op = "crash") => ~LiveCartridgeLoaded

\* what the buses hold: the ROM window is served by the first cartridge that
\* loadROM(filename) ever registered, destroyed or not, and by nothing when
\* there is none; loadROMFromMemory registers nothing
C35_ServedAsCoded ==
    /\ initialized =>
          \A c \in CpuNames : \A a \in RomProbeAddrs :
              LET entries == {j \in 1..Len(busDevs[c]) : busDevs[c][j].dev = "cartridge"}
              IN IF entries = {} THEN ServingDevice(c, a) = Dev("")
                 ELSE /\ ServingDevice(c, a).dev = "cartridge"
                      /\ \A j \in entries : ServingDevice(c, a).gen <= busDevs[c][j].gen
    /\ [][ev'.op = "loadROMFromMemory" => busDevs' = busDevs]_vars

\* the offsets of bank 0 that a boot-copy message addresses: dest .. dest+len-1
\* mod 2^16
BootRange == {(BootDest + i) % OffsetSpace : i \in 0..(BootLen - 1)}

\* the bytes of a RAM that differ from those of another
ChangedBytes(ram, before) ==
    {a \in (DOMAIN ram.data) \cup (DOMAIN before.data) :
        RAM_readByte(ram, a) # RAM_readByte(before, a)}

\* C34: when a boot-copy message (0x01, dest, len, payload) has been delivered
\* to a mailbox by single-byte writes, the coprocessor's RAM differs from what
\* it was before the message only at offsets dest .. dest+len-1 (mod 2^16) of
\* bank 0, whatever the mailbox held from an earlier message
C34_BootCopyFrame ==
    \A mbox \in {"A", "B"} :
        BootComplete(mbox) =>
            ChangedBytes(CoprocessorRAM(mbox), boot.before) \subseteq BootRange

\* the frame condition that holds: a message delivered to a mailbox that holds
\* no earlier message (all bytes zero) changes only dest .. dest+len-1
C34_FreshMailboxFrame ==
    \A mbox \in {"A", "B"} :
        (/\ BootComplete(mbox)
         /\ boot.before = (IF mbox = "A" THEN NewRAM(0, GRAPHICS_RAM_SIZE)
                           ELSE NewRAM(0, SOUND_RAM_SIZE))) =>
            ChangedBytes(CoprocessorRAM(mbox), boot.before) \subseteq BootRange

\* a scanline has just been rendered in standard mode
ScanlineRendered == rendererLog.op = "scanline"

\* the tilemap layers that the layer-enable byte of the rendered line enables
EnabledLayers == {layerIndex \in 0..4 : BitSet(rendererLog.layerEnable, layerIndex)}

\* at column x of the rendered line every enabled tilemap layer fetched colour
\* index 0, and so did every sprite drawn on the line
AllTransparent(x) ==
    /\ \A layerIndex \in EnabledLayers :
          TileColorIndex(unitRenderer.cpld2, unitRenderer.vram, rendererLog.line,
                         layerIndex, x) = 0
    /\ BitSet(rendererLog.layerEnable, 5) =>
          \A i \in SpritesProcessed(unitRenderer.renderer, rendererLog.line) :
              SpriteColorIndex(SpriteAt(unitRenderer.renderer, i), unitRenderer.vram,
                               rendererLog.line, x) = 0

C31_BackdropOnClearColumns ==
    ScanlineRendered =>
        \A x \in TrackedX :
            (AllTransparent(x) /\ rendererLog.clearBefore[x]) =>
                rendererLog.composited[x] = PaletteColor(unitRenderer.renderer.paletteRGBA, 0)

\* the layer buffers at column x as the rendered line left them
ColumnBuffers(x) == [layer \in 0..5 |-> LayerColumn(unitRenderer.renderer, layer, x)]

\* the colour accumulated over the layers layer..5 of a column when a pixel with
\* alpha below 16 is blended over what lies below it
RECURSIVE BlendedTop(_, _, _, _)
BlendedTop(column, layer, accumulated, topPriority) ==
    IF layer > 5 THEN accumulated
    ELSE LET buf == column[layer]
             front == PaletteColor(unitRenderer.renderer.paletteRGBA, buf.color)
         IN IF buf.color # 0 /\ buf.priority >= topPriority /\ buf.alpha > 0
            THEN BlendedTop(column, layer + 1,
                            IF buf.alpha >= 16 THEN front
                            ELSE blendAlpha(front, accumulated, buf.alpha),
                            buf.priority)
            ELSE BlendedTop(column, layer + 1, accumulated, topPriority)

C32_FrontColorAsCoded ==
    ScanlineRendered =>
        \A x \in TrackedX :
            rendererLog.composited[x] =
                PaletteColor(unitRenderer.renderer.paletteRGBA,
                             TopColor(ColumnBuffers(x), 0, 0, 0))

\* the sprites drawn on the rendered line that have a pixel at column x
SpritesAt(x) ==
    {i \in SpritesProcessed(unitRenderer.renderer, rendererLog.line) :
        SpriteColorIndex(SpriteAt(unitRenderer.renderer, i), unitRenderer.vram,
                         rendererLog.line, x) # 0}

\* the sprites with a pixel at column x of the rendered line are two or more
\* and of one priority
TiedSprites(x) ==
    /\ BitSet(rendererLog.layerEnable, 5)
    /\ Cardinality(SpritesAt(x)) >= 2
    /\ \A i, j \in SpritesAt(x) :
          SpriteAt(unitRenderer.renderer, i).priority =
              SpriteAt(unitRenderer.renderer, j).priority

\* the sprite of the lowest cache index among those with a pixel at column x
LowestSprite(x) == CHOOSE i \in SpritesAt(x) : \A j \in SpritesAt(x) : i <= j

C33_TieBreakOnClearColumns ==
    ScanlineRendered =>
        \A x \in TrackedX :
            (TiedSprites(x) /\ rendererLog.clearBefore[x]) =>
                LayerColumn(unitRenderer.renderer, 5, x).color =
                    SpriteColorIndex(SpriteAt(unitRenderer.renderer, LowestSprite(x)),
                                     unitRenderer.vram, rendererLog.line, x)

=============================================================================
